---- MODULE Spec2Model ----
(***************************************************************************)
(* A model of the Shape decoder of TorqueViewer: the bounds-checked byte   *)
(* cursor (MemRStream), the split codec (SplitStream) and the shape schema *)
(* (IO::readShape).  Memory is a heap of byte arrays; a MemRStream is a    *)
(* window [mPtr, mPtr+mSize) into one of them with a cursor mPos.          *)
(***************************************************************************)
EXTENDS Integers, Sequences, FiniteSets, TLC

VARIABLES heap,        \* allocation name -> sequence of bytes
          st,          \* stream name -> MemRStream record
          ss,          \* the SplitStream's own fields: checkCount, dtsVersion
          env,         \* the build (NDEBUG or not) and what an over-read yields
          phase,       \* where the caller's sequence of calls stands
          dest,        \* the destination of the last read
          ret,         \* what the last operation returned
          lastOp,      \* the last operation and its arguments
          prev,        \* the streams and SplitStream fields before the last operation
          log,         \* what the caller wrote and read back, in order
          steps,       \* how many operations the caller has issued
          shape,       \* the Shape that readShape fills
          run          \* readShape's locals, and what its calls returned

vars == <<heap, st, ss, env, phase, dest, ret, lastOp, prev, log, steps, shape, run>>

\* The two variables of readShape where readShape is not running.
NoShape == <<>>
NoRun == <<>>

(***************************************************************************)
(* Bounds of the model.                                                    *)
(***************************************************************************)
MaxMem == 6        \* bytes in the buffer of the byte-cursor specification
MaxRead == 5       \* largest n of an n-byte block read
MaxArr == 2        \* largest N of a fixed-size array read

(***************************************************************************)
(* Bytes and little-endian scalars.  A 4-byte value is kept as the int32_t *)
(* it is in memory (two's complement), so that -1 is FF FF FF FF.          *)
(***************************************************************************)
ByteVals == 256

Pow256(k) == IF k = 0 THEN 1 ELSE IF k = 1 THEN 256 ELSE IF k = 2 THEN 65536 ELSE 16777216

\* The byte at 0-based address a of allocation buf; outside the allocation the
\* read is an over-read that yields whatever lies there (junk).
ByteAt(h, buf, a, junk) == IF a >= 0 /\ a < Len(h[buf]) THEN h[buf][a + 1] ELSE junk

RECURSIVE LE(_, _, _, _, _)
\* The unsigned little-endian value of the n bytes at address a (n <= 3), and
\* for n = 4 the signed one.
LE(h, buf, a, n, junk) ==
  IF n = 0 THEN 0
  ELSE IF n = 4
       THEN LE(h, buf, a, 3, junk)
            + 16777216 * (IF ByteAt(h, buf, a + 3, junk) >= 128
                          THEN ByteAt(h, buf, a + 3, junk) - 256
                          ELSE ByteAt(h, buf, a + 3, junk))
       ELSE LE(h, buf, a, n - 1, junk) + Pow256(n - 1) * ByteAt(h, buf, a + n - 1, junk)

\* The n bytes at address a, as a sequence.
Bytes(h, buf, a, n, junk) == [i \in 1..n |-> ByteAt(h, buf, a + i - 1, junk)]

(***************************************************************************)
(* MemRStream                                                              *)
(***************************************************************************)
MemRStream(buf, ptr, sz, own) ==
  [buf |-> buf, mPtr |-> ptr, mPos |-> 0, mSize |-> sz, mOwnPtr |-> own]

NullStream == MemRStream("null", 0, 0, FALSE)

\* The test every read and write makes before it touches memory.
CanAccessMut(s, n) == ~(s.mPos >= s.mSize)
CanAccess(s, n) == ~(s.mPos >= s.mSize \/ s.mPos + n > s.mSize)

\* The stream after a read or write of n bytes was attempted.
Advance(s, n) == IF CanAccess(s, n) THEN [s EXCEPT !.mPos = @ + n] ELSE s

\* read(T&): the value a scalar read of n bytes leaves in its destination.
readScalar(h, s, n, old, junk) ==
  IF CanAccess(s, n) THEN LE(h, s.buf, s.mPtr + s.mPos, n, junk) ELSE old

\* read(T(&)[N]) and read(size, data): the bytes left in the destination.
readBytes(h, s, n, old, junk) ==
  IF CanAccess(s, n) THEN Bytes(h, s.buf, s.mPtr + s.mPos, n, junk) ELSE old

\* write: the allocation after n bytes were stored at the cursor.
writeBytes(h, s, bytes) ==
  IF CanAccess(s, Len(bytes))
  THEN [h EXCEPT ![s.buf] =
          [i \in 1..Len(@) |->
             IF i - 1 >= s.mPtr + s.mPos /\ i - 1 < s.mPtr + s.mPos + Len(bytes)
             THEN bytes[i - s.mPtr - s.mPos] ELSE @[i]]]
  ELSE h

setPosition(s, pos) == IF pos > s.mSize THEN s ELSE [s EXCEPT !.mPos = pos]

(***************************************************************************)
(* The byte-cursor specification: one MemRStream over a buffer of MaxMem   *)
(* bytes, read and repositioned in any order.                              *)
(***************************************************************************)
StreamNames == {"src", "b32", "b16", "b8", "dst"}

NullStreams == [n \in StreamNames |-> NullStream]

NewSplitStream == [checkCount |-> 0, dtsVersion |-> 0]

MemPattern == [i \in 1..MaxMem |-> (i * 37) % ByteVals]

InitMem ==
  /\ heap = [b \in {"file"} |-> MemPattern]
  /\ \E sz \in 0..MaxMem :
       st = [NullStreams EXCEPT !.src = MemRStream("file", 0, sz, FALSE)]
  /\ ss = NewSplitStream
  /\ env = [ndebug |-> TRUE, junk |-> 0]
  /\ phase = "open"
  /\ dest = <<>>
  /\ ret = TRUE
  /\ lastOp = [op |-> "init", n |-> 0]
  /\ prev = [st |-> NullStreams, ss |-> NewSplitStream]
  /\ log = <<>>
  /\ steps = 0
  /\ shape = NoShape
  /\ run = NoRun

MemReadScalar ==
  \E n \in {1, 2, 4} :
    /\ dest' = IF CanAccess(st.src, n)
               THEN <<readScalar(heap, st.src, n, 0, 0)>> ELSE dest
    /\ ret' = CanAccess(st.src, n)
    /\ st' = [st EXCEPT !.src = Advance(st.src, n)]
    /\ lastOp' = [op |-> "read", n |-> n]
    /\ prev' = [st |-> st, ss |-> ss]
    /\ UNCHANGED <<heap, ss, env, phase, log, steps, shape, run>>

MemReadArray ==
  \E t \in {1, 2, 4}, cnt \in 1..MaxArr :
    /\ dest' = readBytes(heap, st.src, t * cnt, dest, 0)
    /\ ret' = CanAccess(st.src, t * cnt)
    /\ st' = [st EXCEPT !.src = Advance(st.src, t * cnt)]
    /\ lastOp' = [op |-> "read", n |-> t * cnt]
    /\ prev' = [st |-> st, ss |-> ss]
    /\ UNCHANGED <<heap, ss, env, phase, log, steps, shape, run>>

MemReadBlock ==
  \E n \in 0..MaxRead :
    /\ dest' = readBytes(heap, st.src, n, dest, 0)
    /\ ret' = CanAccess(st.src, n)
    /\ st' = [st EXCEPT !.src = Advance(st.src, n)]
    /\ lastOp' = [op |-> "read", n |-> n]
    /\ prev' = [st |-> st, ss |-> ss]
    /\ UNCHANGED <<heap, ss, env, phase, log, steps, shape, run>>

MemSetPosition ==
  \E p \in 0..(MaxMem + 1) :
    /\ st' = [st EXCEPT !.src = setPosition(st.src, p)]
    /\ ret' = TRUE
    /\ lastOp' = [op |-> "setPosition", n |-> p]
    /\ prev' = [st |-> st, ss |-> ss]
    /\ UNCHANGED <<heap, dest, ss, env, phase, log, steps, shape, run>>

NextMem == MemReadScalar \/ MemReadArray \/ MemReadBlock \/ MemSetPosition

SpecMem == InitMem /\ [][NextMem]_vars

\* C5: a MemRStream read that would move the position past mSize returns false
\* and leaves mPos and the destination unchanged, and no read moves mPos
\* beyond mSize.
C5_ReadPastEndFails ==
  [][ (lastOp'.op = "read")
        => /\ (st.src.mPos + lastOp'.n > st.src.mSize
                 => ret' = FALSE /\ st'.src.mPos = st.src.mPos /\ dest' = dest)
           /\ st'.src.mPos <= st'.src.mSize ]_vars

C5_Witness ==
  /\ lastOp.op = "read"
  /\ prev.st.src.mPos < prev.st.src.mSize
  /\ prev.st.src.mPos + lastOp.n > prev.st.src.mSize
  /\ ret = FALSE
  /\ dest # <<>>

(***************************************************************************)
(* SplitStream                                                             *)
(***************************************************************************)
MaxWords == 3      \* 4-byte words of payload in a split buffer of SpecSplit
MaxCount == 2      \* largest element count of a read32 / read16 / read8
MaxOps == 3        \* reads issued after floodFromStream in a run of SpecSplit

HeaderBytes == 16
MinSplitVersion == 19

\* A window of `size` bytes that starts `offset` bytes after other's cursor.
setOffsetView(other, offset, size) ==
  [buf |-> other.buf, mPtr |-> other.mPtr + other.mPos + offset, mPos |-> 0,
   mSize |-> size, mOwnPtr |-> TRUE]

\* Word i (0..3) of the header at the cursor of s.
HdrWord(h, s, i, junk) == LE(h, s.buf, s.mPtr + s.mPos + 4 * i, 4, junk)

\* hdr[0] & 0xFF
SplitVersionOf(h, s, junk) == ByteAt(h, s.buf, s.mPtr + s.mPos, junk)

\* The byte size floodFromStream gives the window of stream B.
Allocated16BytesMut(offset16, offset8) == (offset8 - offset16) * 2
Allocated16Bytes(offset16, offset8) == (offset8 - offset16) * 4

\* floodFromStream: the streams, the SplitStream fields and whether the
\* early return for an old version was taken.
floodFromStream(h, S, sps, junk) ==
  LET hdrAt     == S.src
      version   == SplitVersionOf(h, hdrAt, junk)
      totalSize == HdrWord(h, hdrAt, 1, junk)
      offset16  == HdrWord(h, hdrAt, 2, junk)
      offset8   == HdrWord(h, hdrAt, 3, junk)
      source    == Advance(S.src, HeaderBytes)
  IN IF version < MinSplitVersion
     THEN [st |-> [S EXCEPT !.src = source],
           ss |-> [sps EXCEPT !.dtsVersion = version],
           old |-> TRUE]
     ELSE [st |-> [S EXCEPT
                     !.b32 = setOffsetView(source, 0, offset16 * 4),
                     !.b16 = setOffsetView(source, offset16 * 4,
                                           Allocated16Bytes(offset16, offset8)),
                     !.b8  = setOffsetView(source, offset8 * 4,
                                           (totalSize - offset8) * 4),
                     !.src = [source EXCEPT !.mPos = @ + totalSize * 4]],
           ss |-> [checkCount |-> 0, dtsVersion |-> version],
           old |-> FALSE]

\* The stream a scalar of n bytes is read from.
ReadRouteMut(n) ==
  IF n = 4 THEN "b16" ELSE IF n = 2 THEN "b32" ELSE IF n = 1 THEN "b8" ELSE "none"
ReadRoute(n) ==
  IF n = 4 THEN "b32" ELSE IF n = 2 THEN "b16" ELSE IF n = 1 THEN "b8" ELSE "none"

\* The stream a scalar of n bytes is written to.
WriteRoute(n) ==
  IF n = 32 THEN "b32" ELSE IF n = 16 THEN "b16" ELSE IF n = 8 THEN "b8" ELSE "none"

\* SplitStream::read(T&) for sizeof(T) = n: the streams afterwards, the value
\* left in the destination and the result.
splitRead(h, S, n, old, junk) ==
  LET r == ReadRoute(n)
  IN IF r = "none"
     THEN [st |-> S, val |-> old, ok |-> FALSE, asserted |-> TRUE]
     ELSE [st |-> [S EXCEPT ![r] = Advance(S[r], n)],
           val |-> readScalar(h, S[r], n, old, junk),
           ok |-> CanAccess(S[r], n), asserted |-> FALSE]

\* read32 / read16 / read8 of `count` elements of n bytes.
splitReadN(h, S, n, count, old, junk) ==
  LET r == ReadRoute(n)
  IN [st |-> [S EXCEPT ![r] = Advance(S[r], n * count)],
      val |-> readBytes(h, S[r], n * count, old, junk),
      ok |-> CanAccess(S[r], n * count)]

\* The three values storeCheck writes for the counter value c.
StoreCheck8(c) == c % 256
StoreCheck16(c) == c % 65536
StoreCheck32(c) == c

\* The comparison readCheck makes between what it read and checkCount.
CheckMatches(c8, c16, c32, checkCount) ==
  c8 = checkCount /\ c16 = checkCount /\ c32 = checkCount

\* readCheck: three scalar reads into zero-initialised locals, the comparison,
\* and the counter incremented whatever the outcome.
readCheck(h, S, sps, junk) ==
  LET c8  == readScalar(h, S.b8, 1, 0, junk)
      c16 == readScalar(h, S.b16, 2, 0, junk)
      c32 == readScalar(h, S.b32, 4, 0, junk)
  IN [st |-> [S EXCEPT !.b8 = Advance(S.b8, 1), !.b16 = Advance(S.b16, 2),
                       !.b32 = Advance(S.b32, 4)],
      ss |-> [sps EXCEPT !.checkCount = @ + 1],
      c8 |-> c8, c16 |-> c16, c32 |-> c32,
      readsOk |-> CanAccess(S.b8, 1) /\ CanAccess(S.b16, 2) /\ CanAccess(S.b32, 4),
      ok |-> CheckMatches(c8, c16, c32, sps.checkCount)]

(***************************************************************************)
(* Split buffers.  The 16-byte header and the layout A, B, C after it.     *)
(***************************************************************************)
\* The n little-endian bytes of v (two's complement for negative v).
ToLE(v, n) ==
  [i \in 1..n |->
     IF v >= 0 THEN (v \div Pow256(i - 1)) % 256
     ELSE 255 - ((((-v) - 1) \div Pow256(i - 1)) % 256)]

\* The bytes of a sequence of values of n bytes each.
Encode(vals, n) ==
  [j \in 1..(n * Len(vals)) |-> ToLE(vals[((j - 1) \div n) + 1], n)[((j - 1) % n) + 1]]

ExporterVersion == 1

SplitHeader(version, totalWords, offset16, offset8) ==
  <<version % 256, version \div 256, ExporterVersion, 0>>
    \o ToLE(totalWords, 4) \o ToLE(offset16, 4) \o ToLE(offset8, 4)

(***************************************************************************)
(* The split-reader specification: a header with any consistent offsets    *)
(* over a payload of MaxWords words, flooded and then read in any order.   *)
(***************************************************************************)
SplitPayload(pat) ==
  [i \in 1..(4 * MaxWords) |->
     IF pat = "index" /\ (i - 1) % 4 = 0 THEN ((i - 1) \div 4) + 1 ELSE 0]

InitSplit ==
  /\ \E version \in {18, 19, 24}, pat \in {"index", "zero"},
        offset16 \in 0..MaxWords, offset8 \in 0..MaxWords, totalSize \in 0..MaxWords :
       /\ offset16 <= offset8 /\ offset8 <= totalSize
       /\ heap = [b \in {"file"} |->
                    SplitHeader(version, totalSize, offset16, offset8) \o SplitPayload(pat)]
  /\ st = [NullStreams EXCEPT !.src = MemRStream("file", 0, Len(heap.file), TRUE)]
  /\ ss = NewSplitStream
  /\ \E nd \in BOOLEAN : env = [ndebug |-> nd, junk |-> 0]
  /\ phase = "open"
  /\ dest = <<>>
  /\ ret = TRUE
  /\ lastOp = [op |-> "init", n |-> 0]
  /\ prev = [st |-> NullStreams, ss |-> NewSplitStream]
  /\ log = <<>>
  /\ steps = 0
  /\ shape = NoShape
  /\ run = NoRun

SplitFlood ==
  /\ phase = "open"
  /\ LET f == floodFromStream(heap, st, ss, env.junk)
     IN /\ st' = f.st
        /\ ss' = f.ss
        /\ phase' = IF f.old /\ ~env.ndebug THEN "aborted" ELSE "read"
        /\ ret' = ~f.old
  /\ lastOp' = [op |-> "flood", n |-> 0]
  /\ prev' = [st |-> st, ss |-> ss]
  /\ UNCHANGED <<heap, env, dest, log, steps, shape, run>>

SplitRead ==
  /\ phase = "read"
  /\ steps < MaxOps
  /\ steps' = steps + 1
  /\ \E n \in {1, 2, 4, 8} :
       LET r == splitRead(heap, st, n, 0, env.junk)
       IN /\ st' = r.st
          /\ dest' = IF r.ok THEN <<r.val>> ELSE dest
          /\ ret' = r.ok
          /\ phase' = IF r.asserted /\ ~env.ndebug THEN "aborted" ELSE phase
          /\ lastOp' = [op |-> "splitRead", n |-> n]
  /\ prev' = [st |-> st, ss |-> ss]
  /\ UNCHANGED <<heap, ss, env, log, shape, run>>

SplitReadN ==
  /\ phase = "read"
  /\ steps < MaxOps
  /\ steps' = steps + 1
  /\ \E n \in {1, 2, 4}, count \in 0..MaxCount :
       LET r == splitReadN(heap, st, n, count, dest, env.junk)
       IN /\ st' = r.st
          /\ dest' = r.val
          /\ ret' = r.ok
          /\ lastOp' = [op |-> "splitReadN", n |-> n * count]
  /\ prev' = [st |-> st, ss |-> ss]
  /\ UNCHANGED <<heap, ss, env, phase, log, shape, run>>

SplitReadCheck ==
  /\ phase = "read"
  /\ steps < MaxOps
  /\ steps' = steps + 1
  /\ LET r == readCheck(heap, st, ss, env.junk)
     IN /\ st' = r.st
        /\ ss' = r.ss
        /\ ret' = r.ok
        /\ dest' = <<r.c8, r.c16, r.c32>>
        /\ phase' = IF ~r.ok /\ ~env.ndebug THEN "aborted" ELSE phase
  /\ lastOp' = [op |-> "readCheck", n |-> 0]
  /\ prev' = [st |-> st, ss |-> ss]
  /\ UNCHANGED <<heap, env, log, shape, run>>

NextSplit == SplitFlood \/ SplitRead \/ SplitReadN \/ SplitReadCheck

SpecSplit == InitSplit /\ [][NextSplit]_vars

\* The header words of the buffer the source stream was given.
FileWord(i) == LE(heap, "file", 4 * i, 4, 0)

Flooded == lastOp.op = "flood" /\ ret = TRUE

C8_ReadRouting ==
  (lastOp.op = "splitRead" /\ lastOp.n \in {1, 2, 4} /\ ret = TRUE) =>
    LET own == IF lastOp.n = 4 THEN "b32" ELSE IF lastOp.n = 2 THEN "b16" ELSE "b8"
        was == prev.st[own]
    IN /\ dest = <<LE(heap, was.buf, was.mPtr + was.mPos, lastOp.n, 0)>>
       /\ st[own].mPos = was.mPos + lastOp.n
       /\ \A o \in {"b32", "b16", "b8"} \ {own} : st[o] = prev.st[o]
       /\ ss.checkCount = prev.ss.checkCount

C8_Witness ==
  /\ lastOp.op = "splitRead" /\ lastOp.n = 2 /\ ret = TRUE
  /\ dest = <<2>>
  /\ st.b16.mPos = 2 /\ st.b32.mPos = 4 /\ st.b8.mPos = 1

(***************************************************************************)
(* The checkpoint specification: a split buffer that holds nothing but the *)
(* checkpoints storeCheck writes for the counter values 0, 1, 2, ..., one  *)
(* of them possibly altered, flooded and then read with readCheck.         *)
(***************************************************************************)
MaxChecks == 258   \* checkpoints in the buffer

\* C padded with zero bytes to whole words, B to an even number of elements.
PadTo(bytes, m) == bytes \o [i \in 1..((m - (Len(bytes) % m)) % m) |-> 0]

\* The split buffer that holds the 4-byte values a, the 2-byte values b and
\* the 1-byte values c.
SplitFile(version, a, b, c) ==
  LET bytesA == Encode(a, 4)
      bytesB == PadTo(Encode(b, 2), 4)
      bytesC == PadTo(Encode(c, 1), 4)
      offset16 == Len(bytesA) \div 4
      offset8  == offset16 + Len(bytesB) \div 4
  IN SplitHeader(version, offset8 + Len(bytesC) \div 4, offset16, offset8)
       \o bytesA \o bytesB \o bytesC

\* The i-th stored value, altered by `by` at the tampered index.
Stored(i, t, which, kind, v) == IF kind = which /\ i = t + 1 THEN v + 1 ELSE v

CheckFile(k, kind, t) ==
  SplitFile(24,
            [i \in 1..k |-> Stored(i, t, "c32", kind, StoreCheck32(i - 1))],
            [i \in 1..k |-> Stored(i, t, "c16", kind, StoreCheck16(i - 1))],
            [i \in 1..k |-> Stored(i, t, "c8", kind, StoreCheck8(i - 1)) % 256])

InitCheck ==
  /\ \E kind \in {"none", "c8", "c16", "c32"}, t \in {0, 1, 2} :
       /\ (kind = "none" => t = 0)
       /\ heap = [b \in {"file"} |-> CheckFile(MaxChecks, kind, t)]
       /\ log = <<kind, t>>
  /\ st = [NullStreams EXCEPT !.src = MemRStream("file", 0, Len(heap.file), TRUE)]
  /\ ss = NewSplitStream
  /\ \E nd \in BOOLEAN : env = [ndebug |-> nd, junk |-> 0]
  /\ phase = "open"
  /\ dest = <<>>
  /\ ret = TRUE
  /\ lastOp = [op |-> "init", n |-> 0]
  /\ prev = [st |-> NullStreams, ss |-> NewSplitStream]
  /\ steps = 0
  /\ shape = NoShape
  /\ run = NoRun

CheckReadCheck ==
  /\ phase = "read"
  /\ st.b32.mPos < st.b32.mSize
  /\ LET r == readCheck(heap, st, ss, env.junk)
     IN /\ st' = r.st
        /\ ss' = r.ss
        /\ ret' = r.ok
        /\ dest' = <<r.c8, r.c16, r.c32>>
        /\ phase' = IF ~r.ok /\ ~env.ndebug THEN "aborted" ELSE phase
  /\ lastOp' = [op |-> "readCheck", n |-> 0]
  /\ prev' = [st |-> st, ss |-> ss]
  /\ UNCHANGED <<heap, env, log, steps, shape, run>>

NextCheck == SplitFlood \/ CheckReadCheck

SpecCheck == InitCheck /\ [][NextCheck]_vars

\* What lay at the three cursors when the last readCheck was called.
AtCursor(name, n) ==
  LE(heap, prev.st[name].buf, prev.st[name].mPtr + prev.st[name].mPos, n, 0)

\* C4: with n readCheck calls made since floodFromStream, the next readCheck
\* returns true exactly when the byte read from stream C is n mod 2^8, the
\* 16-bit value read from stream B is n mod 2^16 and the 32-bit value read
\* from stream A is n mod 2^32; so a buffer whose checkpoints storeCheck
\* wrote passes every readCheck, the 257th and later ones too.
C4_CheckTruncates ==
  lastOp.op = "readCheck" =>
    LET n == prev.ss.checkCount
    IN /\ ret = (/\ AtCursor("b8", 1) = n % 256
                 /\ AtCursor("b16", 2) = n % 65536
                 /\ AtCursor("b32", 4) = n)
       /\ (log[1] = "none" => ret = TRUE)

(***************************************************************************)
(* The writer side of SplitStream.                                         *)
(***************************************************************************)
MaxWrites == 3     \* values the caller writes before flushToStream
MaxVal == 2        \* largest value written
BufCap == 8        \* capacity of each of the three write buffers
OutCap == 40       \* capacity of the stream flushToStream writes to

\* SplitStream::write(T&) for sizeof(T) = n: the heap and streams afterwards
\* and the result.
splitWrite(h, S, n, v) ==
  LET r == WriteRoute(n)
  IN IF r = "none"
     THEN [heap |-> h, st |-> S, ok |-> FALSE, asserted |-> TRUE]
     ELSE [heap |-> writeBytes(h, S[r], ToLE(v, n)),
           st |-> [S EXCEPT ![r] = Advance(S[r], n)],
           ok |-> CanAccess(S[r], n), asserted |-> FALSE]

\* write32 / write16 / write8 of the values vals, n bytes each.
splitWriteN(h, S, n, vals) ==
  LET r == ReadRoute(n)
  IN [heap |-> writeBytes(h, S[r], Encode(vals, n)),
      st |-> [S EXCEPT ![r] = Advance(S[r], n * Len(vals))],
      ok |-> CanAccess(S[r], n * Len(vals))]

\* storeCheck: the counter truncated to 8, 16 and 32 bits, written to the
\* three streams, and the counter incremented.
storeCheck(h, S, sps) ==
  LET h1 == writeBytes(h, S.b8, ToLE(StoreCheck8(sps.checkCount), 1))
      h2 == writeBytes(h1, S.b16, ToLE(StoreCheck16(sps.checkCount), 2))
      h3 == writeBytes(h2, S.b32, ToLE(StoreCheck32(sps.checkCount), 4))
  IN [heap |-> h3,
      st |-> [S EXCEPT !.b8 = Advance(S.b8, 1), !.b16 = Advance(S.b16, 2),
                       !.b32 = Advance(S.b32, 4)],
      ss |-> [sps EXCEPT !.checkCount = @ + 1]]

RECURSIVE ZeroFill(_, _, _)
\* n calls of write8(1, &blank): each stores one zero byte if it fits.
ZeroFill(h, s, n) ==
  IF n = 0 THEN [heap |-> h, s |-> s]
  ELSE ZeroFill(writeBytes(h, s, <<0>>), Advance(s, 1), n - 1)

\* flushToStream: pad B and C, then the header and three block writes.
flushToStream(h, S, sps, junk) ==
  LET sz8in  == S.b8.mPos
      sz16in == S.b16.mPos
      sz32   == S.b32.mPos
      oddB   == sz16in % 2 = 1
      hB     == IF oddB THEN writeBytes(h, S.b16, <<0, 0>>) ELSE h
      b16    == IF oddB THEN Advance(S.b16, 2) ELSE S.b16
      sz16   == IF oddB THEN sz16in + 1 ELSE sz16in
      pad8   == (4 - (sz8in % 4)) % 4
      fill   == ZeroFill(hB, S.b8, pad8)
      sz8    == sz8in + pad8
      offset16  == sz32
      offset8   == offset16 + (sz16 \div 2)
      totalSize == offset8 + (sz8 \div 4)
      hdr == <<sps.dtsVersion % 256, sps.dtsVersion \div 256, ExporterVersion, 0>>
               \o ToLE(totalSize, 4) \o ToLE(offset16, 4) \o ToLE(offset8, 4)
      h0 == fill.heap
      d0 == S.dst
      h1 == writeBytes(h0, d0, hdr)
      d1 == Advance(d0, Len(hdr))
      h2 == writeBytes(h1, d1, Bytes(h1, S.b32.buf, S.b32.mPtr, sz8, junk))
      d2 == Advance(d1, sz8)
      h3 == writeBytes(h2, d2, Bytes(h2, b16.buf, b16.mPtr, sz16, junk))
      d3 == Advance(d2, sz16)
      h4 == writeBytes(h3, d3, Bytes(h3, S.b8.buf, S.b8.mPtr, sz32, junk))
      d4 == Advance(d3, sz32)
  IN [heap |-> h4, st |-> [S EXCEPT !.b16 = b16, !.b8 = fill.s, !.dst = d4]]

(***************************************************************************)
(* The round-trip specification: the caller writes scalars with write(),   *)
(* or arrays and checkpoints, then flushes, floods the bytes produced and  *)
(* reads the same items back in the same order.                            *)
(***************************************************************************)
InitRound ==
  /\ \E junk \in {0, 170} :
       /\ env \in {[ndebug |-> nd, junk |-> junk] : nd \in BOOLEAN}
       /\ heap = [b \in {"a32", "a16", "a8", "out"} |->
                    [i \in 1..(IF b = "out" THEN OutCap ELSE BufCap) |-> junk]]
  /\ st = [NullStreams EXCEPT
             !.b32 = MemRStream("a32", 0, BufCap, FALSE),
             !.b16 = MemRStream("a16", 0, BufCap, FALSE),
             !.b8  = MemRStream("a8", 0, BufCap, FALSE),
             !.dst = MemRStream("out", 0, OutCap, FALSE)]
  /\ ss = [checkCount |-> 0, dtsVersion |-> 24]
  /\ phase = "write"
  /\ dest = <<>>
  /\ ret = TRUE
  /\ lastOp = [op |-> "init", n |-> 0]
  /\ prev = [st |-> NullStreams, ss |-> NewSplitStream]
  /\ log = <<>>
  /\ steps = 0
  /\ shape = NoShape
  /\ run = NoRun

RoundWrite ==
  /\ phase = "write"
  /\ Len(log) < MaxWrites
  /\ \E n \in {1, 2, 4}, v \in 1..MaxVal :
       LET w == splitWrite(heap, st, n, v)
       IN /\ heap' = w.heap
          /\ st' = w.st
          /\ ret' = w.ok
          /\ phase' = IF w.asserted /\ ~env.ndebug THEN "aborted" ELSE phase
          /\ log' = Append(log, [kind |-> "scalar", n |-> n, v |-> v])
          /\ lastOp' = [op |-> "write", n |-> n]
  /\ prev' = [st |-> st, ss |-> ss]
  /\ UNCHANGED <<ss, env, dest, steps, shape, run>>

RoundWriteN ==
  /\ phase = "write"
  /\ Len(log) < MaxWrites
  /\ \E n \in {1, 2, 4}, v \in 1..MaxVal :
       LET w == splitWriteN(heap, st, n, <<v>>)
       IN /\ heap' = w.heap
          /\ st' = w.st
          /\ ret' = w.ok
          /\ log' = Append(log, [kind |-> "array", n |-> n, v |-> v])
          /\ lastOp' = [op |-> "writeN", n |-> n]
  /\ prev' = [st |-> st, ss |-> ss]
  /\ UNCHANGED <<ss, env, phase, dest, steps, shape, run>>

RoundStoreCheck ==
  /\ phase = "write"
  /\ Len(log) < MaxWrites
  /\ LET w == storeCheck(heap, st, ss)
     IN /\ heap' = w.heap
        /\ st' = w.st
        /\ ss' = w.ss
  /\ ret' = TRUE
  /\ log' = Append(log, [kind |-> "check", n |-> 0, v |-> ss.checkCount])
  /\ lastOp' = [op |-> "storeCheck", n |-> 0]
  /\ prev' = [st |-> st, ss |-> ss]
  /\ UNCHANGED <<env, phase, dest, steps, shape, run>>

RoundFlush ==
  /\ phase = "write"
  /\ LET f == flushToStream(heap, st, ss, env.junk)
     IN /\ heap' = f.heap
        /\ st' = f.st
  /\ phase' = "flushed"
  /\ ret' = TRUE
  /\ lastOp' = [op |-> "flush", n |-> 0]
  /\ prev' = [st |-> st, ss |-> ss]
  /\ UNCHANGED <<ss, env, dest, log, steps, shape, run>>

\* The caller opens the bytes flushToStream produced and floods them.
RoundFlood ==
  /\ phase = "flushed"
  /\ LET opened == [st EXCEPT !.src = MemRStream("out", 0, st.dst.mPos, FALSE)]
         f == floodFromStream(heap, opened, ss, env.junk)
     IN /\ st' = f.st
        /\ ss' = f.ss
        /\ phase' = IF f.old /\ ~env.ndebug THEN "aborted" ELSE "read"
        /\ ret' = ~f.old
  /\ lastOp' = [op |-> "flood", n |-> 0]
  /\ prev' = [st |-> st, ss |-> ss]
  /\ UNCHANGED <<heap, env, dest, log, steps, shape, run>>

\* The caller reads item steps+1 of what it wrote, with the matching reader.
RoundReadBack ==
  /\ phase = "read"
  /\ steps < Len(log)
  /\ LET item == log[steps + 1]
         rs == splitRead(heap, st, item.n, 0, env.junk)
         rn == splitReadN(heap, st, item.n, 1, <<>>, env.junk)
         rc == readCheck(heap, st, ss, env.junk)
     IN /\ st' = IF item.kind = "scalar" THEN rs.st
                 ELSE IF item.kind = "array" THEN rn.st ELSE rc.st
        /\ ss' = IF item.kind = "check" THEN rc.ss ELSE ss
        /\ ret' = IF item.kind = "scalar" THEN rs.ok
                  ELSE IF item.kind = "array" THEN rn.ok ELSE rc.ok
        /\ dest' = Append(dest,
                     IF item.kind = "scalar" THEN [ok |-> rs.ok, v |-> rs.val]
                     ELSE IF item.kind = "array"
                          THEN [ok |-> rn.ok, v |-> IF rn.ok THEN rn.val[1] ELSE 0]
                          ELSE [ok |-> rc.ok, v |-> rc.c32])
        /\ phase' = IF item.kind = "check" /\ ~rc.ok /\ ~env.ndebug
                    THEN "aborted" ELSE phase
  /\ steps' = steps + 1
  /\ lastOp' = [op |-> "readBack", n |-> 0]
  /\ prev' = [st |-> st, ss |-> ss]
  /\ UNCHANGED <<heap, env, log, shape, run>>

NextRound ==
  RoundWrite \/ RoundWriteN \/ RoundStoreCheck \/ RoundFlush \/ RoundFlood \/ RoundReadBack

SpecRound == InitRound /\ [][NextRound]_vars

\* The bytes stream `name` held at its cursor when flushToStream was called.
Written(name) ==
  [i \in 1..prev.st[name].mPos |-> heap[prev.st[name].buf][prev.st[name].mPtr + i]]

OutWord(i) == LE(heap, "out", 4 * i, 4, 0)

\* C6: scalars of 1, 2 and 4 bytes written with write(), flushed and flooded,
\* read back in the same order with the same types give the original values,
\* and the header offsets describe the three streams written.
C6_RoundTrip ==
  (phase = "read" /\ steps = Len(log)) =>
    /\ \A i \in 1..Len(log) :
         log[i].kind = "scalar" => dest[i] = [ok |-> TRUE, v |-> log[i].v]
    /\ (\A i \in 1..Len(log) : log[i].kind = "scalar") =>
         /\ 4 * OutWord(2) = 4 * Cardinality({i \in 1..Len(log) : log[i].n = 4})
         /\ 4 * (OutWord(3) - OutWord(2)) >=
              2 * Cardinality({i \in 1..Len(log) : log[i].n = 2})
         /\ 4 * (OutWord(1) - OutWord(3)) >=
              Cardinality({i \in 1..Len(log) : log[i].n = 1})

\* C9: flushToStream pads B with zero bytes to an even byte count and C to a
\* multiple of 4 bytes, then emits the header, all bytes of A, of B and of C;
\* header word 1 is the payload length in words, word 2 the word offset of B
\* and word 3 the word offset of C.
C9_FlushLayout ==
  lastOp.op = "flush" =>
    LET a == Written("b32")
        b == PadTo(Written("b16"), 2)
        c == PadTo(Written("b8"), 4)
        out == [i \in 1..st.dst.mPos |-> heap.out[i]]
    IN /\ out = [i \in 1..HeaderBytes |-> heap.out[i]] \o a \o b \o c
       /\ 4 * OutWord(1) = Len(a) + Len(b) + Len(c)
       /\ 4 * OutWord(2) = Len(a)
       /\ 4 * OutWord(3) = Len(a) + Len(b)

(***************************************************************************)
(* IO::readShape.  The sequences and the material list come from the base  *)
(* stream, everything else from the three windows of the SplitStream.      *)
(***************************************************************************)
MaxNodes == 2      \* nodes of an input shape
MaxItems == 1      \* entries of every other collection of an input shape
MaxDecals == 1     \* decals of an input shape
MaxTamper == 2     \* checkpoints of an input, counted from the first, that may be altered
BadIndex == 5      \* a parent index no input shape has a node for
MaxFollow == 32    \* the longest array a run is followed through

T_Null == 4
WordSize == 8
BINARY_FILE_VERSION == 1
LinearMagic == 861099076

\* A count is a uint32_t: what the model holds as a negative value is a count
\* of 2^31 elements or more.
Huge(count) == count < 0

\* How a section ends a run that asks for arrays of these lengths: an array
\* of 2^31 elements or more is not allocated, and a run that asks for more
\* than MaxFollow elements is not followed further.
Stop(counts) ==
  IF \E i \in DOMAIN counts : Huge(counts[i]) THEN "threw"
  ELSE IF \E i \in DOMAIN counts : counts[i] > MaxFollow THEN "beyond"
  ELSE ""

\* The number of elements the model reads for a count.
Clamp(count) == IF Huge(count) \/ count > MaxFollow THEN 0 ELSE count

\* The byte length of `count` elements of `width` bytes, for a stream of mSize bytes.
ByteLen(s, count, width) == IF Huge(count) THEN s.mSize + 1 ELSE count * width

\* Body applied to the value of v.  The readers below bind each intermediate
\* stream this way, so that it is a value before the next read starts.
With(v, Body(_)) == CHOOSE y \in {Body(x) : x \in {v}} : TRUE

\* A run of SplitStream::read(T&) calls, one per entry of sizes, each into a
\* destination that holds the matching entry of olds.
RECURSIVE ReadFields(_, _, _, _, _)
ReadFields(h, S, sizes, olds, junk) ==
  IF sizes = <<>>
  THEN [st |-> S, vals |-> <<>>, ok |-> TRUE, asserted |-> FALSE]
  ELSE With(splitRead(h, S, Head(sizes), Head(olds), junk), LAMBDA r :
       With(ReadFields(h, r.st, Tail(sizes), Tail(olds), junk), LAMBDA t :
         [st |-> t.st, vals |-> <<r.val>> \o t.vals,
          ok |-> r.ok /\ t.ok, asserted |-> r.asserted \/ t.asserted]))

\* `count` records read one after the other, each a run of fields.
RECURSIVE ReadRecords(_, _, _, _, _, _)
ReadRecords(h, S, count, sizes, olds, junk) ==
  IF count <= 0
  THEN [st |-> S, recs |-> <<>>, ok |-> TRUE, asserted |-> FALSE]
  ELSE With(ReadFields(h, S, sizes, olds, junk), LAMBDA r :
       With(ReadRecords(h, r.st, count - 1, sizes, olds, junk), LAMBDA t :
         [st |-> t.st, recs |-> <<r.vals>> \o t.recs,
          ok |-> r.ok /\ t.ok, asserted |-> r.asserted \/ t.asserted]))

\* A run of MemRStream::read(T&) calls on one stream.
RECURSIVE BaseFields(_, _, _, _, _)
BaseFields(h, s, sizes, olds, junk) ==
  IF sizes = <<>>
  THEN [s |-> s, vals |-> <<>>, ok |-> TRUE]
  ELSE With(Advance(s, Head(sizes)), LAMBDA next :
       With(BaseFields(h, next, Tail(sizes), Tail(olds), junk), LAMBDA t :
         [s |-> t.s,
          vals |-> <<readScalar(h, s, Head(sizes), Head(olds), junk)>> \o t.vals,
          ok |-> CanAccess(s, Head(sizes)) /\ t.ok]))

\* readIntegerSet: numInts, numWords, then WordSize * numWords bytes into the
\* words of a set that was reset.  (The set has room for 2048 bytes; no input
\* of the model is that long, so a read that succeeds fits.)
readIntegerSet(h, s, junk) ==
  With(BaseFields(h, s, <<4, 4>>, <<0, 0>>, junk), LAMBDA f :
  With(ByteLen(f.s, f.vals[2], WordSize), LAMBDA n :
    [s |-> Advance(f.s, n),
     words |-> readBytes(h, f.s, n, <<>>, junk),
     ok |-> f.ok /\ CanAccess(f.s, n)]))

RECURSIVE readIntegerSets(_, _, _, _)
readIntegerSets(h, s, k, junk) ==
  IF k = 0 THEN [s |-> s, sets |-> <<>>, ok |-> TRUE]
  ELSE With(readIntegerSet(h, s, junk), LAMBDA r :
       With(readIntegerSets(h, r.s, k - 1, junk), LAMBDA t :
         [s |-> t.s, sets |-> <<r.words>> \o t.sets, ok |-> r.ok /\ t.ok]))

\* The fields of a default-constructed Sequence, in the order read() fills them.
SequenceDefaults == <<0, 0, 0, 0, 0, -1, 0, -1, -1, -1, -1, -1, -1, 0, 0>>

\* Sequence::read: fifteen 4-byte fields, then the eight matters sets.
SequenceRead(h, s, junk) ==
  With(BaseFields(h, s, [i \in 1..15 |-> 4], SequenceDefaults, junk), LAMBDA f :
  With(readIntegerSets(h, f.s, 8, junk), LAMBDA m :
    [s |-> m.s, seq |-> [fields |-> f.vals, matters |-> m.sets],
     ok |-> f.ok /\ m.ok]))

RECURSIVE SequencesRead(_, _, _, _)
SequencesRead(h, s, count, junk) ==
  IF count <= 0 THEN [s |-> s, seqs |-> <<>>, ok |-> TRUE]
  ELSE With(SequenceRead(h, s, junk), LAMBDA r :
       With(SequencesRead(h, r.s, count - 1, junk), LAMBDA t :
         [s |-> t.s, seqs |-> <<r.seq>> \o t.seqs, ok |-> r.ok /\ t.ok]))

\* The names of a VARIANT_TS material list: a length byte read into an
\* uninitialised uint8_t, then that many bytes.
RECURSIVE MaterialNames(_, _, _, _)
MaterialNames(h, s, count, junk) ==
  IF count <= 0 THEN [s |-> s, names |-> <<>>, ok |-> TRUE]
  ELSE With(readScalar(h, s, 1, junk, junk), LAMBDA nameLen :
       With(Advance(s, 1), LAMBDA s1 :
       With(Advance(s1, nameLen), LAMBDA next :
       With(MaterialNames(h, next, count - 1, junk), LAMBDA t :
         [s |-> t.s,
          names |-> <<readBytes(h, s1, nameLen, [i \in 1..nameLen |-> 0], junk)>>
                      \o t.names,
          ok |-> CanAccess(s, 1) /\ CanAccess(s1, nameLen) /\ t.ok]))))

\* One pass over the materials that reads a 4-byte value for each into the
\* same local `tmp`, which keeps its last value when a read fails.
RECURSIVE MaterialColumn(_, _, _, _, _)
MaterialColumn(h, s, count, tmp, junk) ==
  IF count <= 0 THEN [s |-> s, vals |-> <<>>, tmp |-> tmp, ok |-> TRUE]
  ELSE With(readScalar(h, s, 4, tmp, junk), LAMBDA v :
       With(Advance(s, 4), LAMBDA next :
       With(MaterialColumn(h, next, count - 1, v, junk), LAMBDA t :
         [s |-> t.s, vals |-> <<v>> \o t.vals, tmp |-> t.tmp,
          ok |-> CanAccess(s, 4) /\ t.ok])))

\* name.c_str(): the bytes before the first zero byte.
CStr(bytes) ==
  LET zeros == {i \in 1..Len(bytes) : bytes[i] = 0}
      n == IF zeros = {} THEN Len(bytes)
           ELSE (CHOOSE i \in zeros : \A j \in zeros : i <= j) - 1
  IN [i \in 1..n |-> bytes[i]]

\* The value an int16_t holds after a uint32_t was assigned to it.
ToInt16(v) == ((v + 32768) % 65536) - 32768

\* MaterialList::read for mVariant = VARIANT_TS.
MaterialListRead(h, s, junk) ==
  With(readScalar(h, s, 1, 0, junk), LAMBDA versionNum :
  With(Advance(s, 1), LAMBDA s1 :
    IF versionNum # BINARY_FILE_VERSION
    THEN [s |-> s1, mats |-> <<>>, ok |-> CanAccess(s, 1), ret |-> FALSE, stop |-> ""]
    ELSE
  With(readScalar(h, s1, 4, 0, junk), LAMBDA numMaterials :
  With(MaterialNames(h, Advance(s1, 4), Clamp(numMaterials), junk), LAMBDA names :
  With(Len(names.names), LAMBDA n :
  With(MaterialColumn(h, names.s, n, 0, junk), LAMBDA flags :
  With(MaterialColumn(h, flags.s, n, flags.tmp, junk), LAMBDA refl :
  With(MaterialColumn(h, refl.s, n, refl.tmp, junk), LAMBDA bump :
  With(MaterialColumn(h, bump.s, n, bump.tmp, junk), LAMBDA det :
  With(BaseFields(h, det.s, [i \in 1..n |-> 4], [i \in 1..n |-> 0], junk), LAMBDA scale :
  With(BaseFields(h, scale.s, [i \in 1..n |-> 4], [i \in 1..n |-> 0], junk), LAMBDA amount :
    [s |-> amount.s,
     mats |-> [i \in 1..n |->
                 [name |-> CStr(names.names[i]),
                  flags |-> flags.vals[i] % 65536,
                  reflectanceMap |-> ToInt16(refl.vals[i]),
                  bumpMap |-> ToInt16(bump.vals[i]),
                  detailMap |-> ToInt16(det.vals[i]),
                  detailScale |-> scale.vals[i],
                  reflectionAmount |-> amount.vals[i]]],
     ok |-> CanAccess(s, 1) /\ CanAccess(s1, 4) /\ names.ok /\ flags.ok /\ refl.ok
              /\ bump.ok /\ det.ok /\ scale.ok /\ amount.ok,
     ret |-> TRUE, stop |-> Stop(<<numMaterials>>)])))))))))))

\* Shape(): the Shape before readShape has stored anything in it.
NewShape(junk) ==
  [sequences |-> <<>>, materials |-> <<>>,
   smallestVisibleSize |-> 0, smallestVisibleDetailLevel |-> 0,
   radius |-> 0, tubeRadius |-> 0,
   center |-> <<junk, junk, junk>>,
   bounds |-> <<junk, junk, junk, junk, junk, junk>>,
   nodes |-> <<>>, objects |-> <<>>, decals |-> <<>>, iflMaterials |-> <<>>,
   subshapes |-> <<>>,
   defaultRotations |-> <<>>, defaultTranslations |-> <<>>,
   nodeTranslations |-> <<>>, nodeRotations |-> <<>>,
   nodeUniformScales |-> <<>>, nodeAlignedScales |-> <<>>,
   nodeArbitraryScaleFactors |-> <<>>, nodeArbitraryScaleRotations |-> <<>>,
   groundTranslations |-> <<>>, groundRotations |-> <<>>,
   objectStates |-> <<>>, decalStates |-> <<>>, triggers |-> <<>>,
   detailLevels |-> <<>>, meshes |-> <<>>, names |-> <<>>,
   previousMerge |-> <<>>, exportMerge |-> FALSE]

\* The locals of readShape as it starts, with what the model records on the
\* way: whether a read has failed and whether a readCheck has returned false.
NewRun ==
  [pc |-> "base",
   numNodes |-> 0, numObjects |-> 0, numDecals |-> 0, numSubShapes |-> 0,
   numIflMaterials |-> 0, numNodeRots |-> 0, numNodeTrans |-> 0,
   numNodeUniformScales |-> 0, numNodeAlignedScales |-> 0,
   numNodeArbitraryScales |-> 0, numGroundFrames |-> 0, numObjectStates |-> 0,
   numDecalStates |-> 0, numTriggers |-> 0, numDetails |-> 0, numMeshes |-> 0,
   numNames |-> 0, numSkins |-> 0,
   readFailed |-> FALSE, checkFailed |-> FALSE]

Zeros(n) == [i \in 1..n |-> 0]
Words(n) == [i \in 1..n |-> 4]

Node(v) ==
  [name |-> v[1], parent |-> v[2], firstObject |-> v[3], firstChild |-> v[4],
   nextSibling |-> v[5]]
Object(v) ==
  [name |-> v[1], numMeshes |-> v[2], firstMesh |-> v[3], node |-> v[4],
   nextSibling |-> v[5], firstDecal |-> v[6]]
Decal(v) ==
  [name |-> v[1], numMeshes |-> v[2], firstMesh |-> v[3], object |-> v[4],
   nextSibling |-> v[5]]
IflMaterial(v) ==
  [name |-> v[1], slot |-> v[2], firstFrame |-> v[3], time |-> v[4], numFrames |-> v[5]]
DetailLevel(v) ==
  [name |-> v[1], subshape |-> v[2], objectDetail |-> v[3], size |-> v[4],
   avgError |-> v[5], maxError |-> v[6], polyCount |-> v[7]]
DetailLevelDefaults == <<0, 0, 0, 0, -1, -1, 0>>
FloatOne == 1065353216
ObjectStateDefaults == <<FloatOne, 0, 0>>

\* The end of one section of readShape.  S and sps are the streams and the
\* SplitStream fields the section leaves, locals the locals, next the section
\* that follows; ok tells whether every read of the section succeeded,
\* checked whether every readCheck of the section returned true, asserted
\* whether an assert(false) was met; stop is "" or the way the section ended
\* the run: "threw" (a container was asked to hold 2^31 elements or more),
\* "crashed" (one outcome of undefined behaviour) or "beyond" (the section met
\* a mesh body, a skin or an array of more than MaxFollow elements, which
\* this specification does not follow).
Section(S, sps, locals, next, ok, checked, asserted, stop) ==
  /\ st' = S
  /\ ss' = sps
  /\ phase' = IF stop # "" THEN stop
              ELSE IF (asserted \/ ~checked) /\ ~env.ndebug THEN "aborted"
              ELSE phase
  /\ run' = [locals EXCEPT !.pc = next,
                           !.readFailed = @ \/ ~ok,
                           !.checkFailed = @ \/ ~checked]
  /\ lastOp' = [op |-> run.pc, n |-> 0]
  /\ prev' = [st |-> st, ss |-> ss]
  /\ UNCHANGED <<heap, env, dest, ret, log, steps>>

\* A section that reads `count` records of the given fields and ends with a
\* readCheck: what it read, and the streams after the readCheck.
Records(count, sizes, olds) ==
  With(ReadRecords(heap, st, Clamp(count), sizes, olds, env.junk), LAMBDA r :
  With(readCheck(heap, r.st, ss, env.junk), LAMBDA c :
    [recs |-> r.recs, st |-> c.st, ss |-> c.ss, ok |-> r.ok /\ c.readsOk,
     checked |-> c.ok, asserted |-> r.asserted]))

\* The sequences and the material list, read from the base stream.
RS_Base ==
  /\ phase = "read" /\ run.pc = "base"
  /\ \E numSequences \in {readScalar(heap, st.src, 4, 0, env.junk)} :
     \E q \in {SequencesRead(heap, Advance(st.src, 4), Clamp(numSequences), env.junk)} :
     \E m \in {MaterialListRead(heap, q.s, env.junk)} :
     \E stop \in {Stop(<<numSequences>>)} :
        /\ shape' = [shape EXCEPT !.sequences = q.seqs, !.materials = m.mats]
        /\ Section([st EXCEPT !.src = m.s], ss, run,
                   "counts", CanAccess(st.src, 4) /\ q.ok /\ m.ok, TRUE, FALSE,
                   IF stop # "" THEN stop ELSE m.stop)

\* CountNames with the five keyframe counts gated one version later.
CountNamesMut(version) ==
  <<"numNodes", "numObjects", "numDecals", "numSubShapes", "numIflMaterials">>
  \o (IF version >= 23
      THEN <<"numNodeRots", "numNodeTrans", "numNodeUniformScales",
             "numNodeAlignedScales", "numNodeArbitraryScales">>
      ELSE <<"sz">>)
  \o (IF version > 23 THEN <<"numGroundFrames">> ELSE <<>>)
  \o <<"numObjectStates", "numDecalStates", "numTriggers", "numDetails", "numMeshes">>
  \o (IF version < 23 THEN <<"numSkins">> ELSE <<>>)
  \o <<"numNames", "mSmallestVisibleSize", "mSmallestVisibleDetailLevel">>

\* CountNames with the ground-frame count gated one version earlier.
CountNamesGroundMut(version) ==
  <<"numNodes", "numObjects", "numDecals", "numSubShapes", "numIflMaterials">>
  \o (IF version >= 22
      THEN <<"numNodeRots", "numNodeTrans", "numNodeUniformScales",
             "numNodeAlignedScales", "numNodeArbitraryScales">>
      ELSE <<"sz">>)
  \o (IF version > 22 THEN <<"numGroundFrames">> ELSE <<>>)
  \o <<"numObjectStates", "numDecalStates", "numTriggers", "numDetails", "numMeshes">>
  \o (IF version < 23 THEN <<"numSkins">> ELSE <<>>)
  \o <<"numNames", "mSmallestVisibleSize", "mSmallestVisibleDetailLevel">>

\* The counts readShape reads for a version, in the order it reads them.
CountNames(version) ==
  <<"numNodes", "numObjects", "numDecals", "numSubShapes", "numIflMaterials">>
  \o (IF version >= 22
      THEN <<"numNodeRots", "numNodeTrans", "numNodeUniformScales",
             "numNodeAlignedScales", "numNodeArbitraryScales">>
      ELSE <<"sz">>)
  \o (IF version > 23 THEN <<"numGroundFrames">> ELSE <<>>)
  \o <<"numObjectStates", "numDecalStates", "numTriggers", "numDetails", "numMeshes">>
  \o (IF version < 23 THEN <<"numSkins">> ELSE <<>>)
  \o <<"numNames", "mSmallestVisibleSize", "mSmallestVisibleDetailLevel">>

\* The value read for a count, or 0 for a count the version has no word for.
CountRead(names, vals, name) ==
  IF \E i \in 1..Len(names) : names[i] = name
  THEN vals[CHOOSE i \in 1..Len(names) : names[i] = name]
  ELSE 0

RS_Counts ==
  /\ phase = "read" /\ run.pc = "counts"
  /\ \E names \in {CountNames(ss.dtsVersion)} :
     \E r \in {ReadFields(heap, st, Words(Len(names)), Zeros(Len(names)), env.junk)} :
     \E c \in {readCheck(heap, r.st, ss, env.junk)} :
     LET V(name) == CountRead(names, r.vals, name)
         rots == IF ss.dtsVersion >= 22 THEN V("numNodeRots") ELSE V("sz") - V("numNodes")
         trans == IF ss.dtsVersion >= 22 THEN V("numNodeTrans") ELSE V("sz") - V("numNodes")
     IN /\ shape' = [shape EXCEPT
                       !.smallestVisibleSize = V("mSmallestVisibleSize"),
                       !.smallestVisibleDetailLevel = V("mSmallestVisibleDetailLevel")]
        /\ Section(c.st, c.ss,
                   [run EXCEPT
                      !.numNodes = V("numNodes"), !.numObjects = V("numObjects"),
                      !.numDecals = V("numDecals"), !.numSubShapes = V("numSubShapes"),
                      !.numIflMaterials = V("numIflMaterials"),
                      !.numNodeRots = rots, !.numNodeTrans = trans,
                      !.numNodeUniformScales = V("numNodeUniformScales"),
                      !.numNodeAlignedScales = V("numNodeAlignedScales"),
                      !.numNodeArbitraryScales = V("numNodeArbitraryScales"),
                      !.numGroundFrames = V("numGroundFrames"),
                      !.numObjectStates = V("numObjectStates"),
                      !.numDecalStates = V("numDecalStates"),
                      !.numTriggers = V("numTriggers"), !.numDetails = V("numDetails"),
                      !.numMeshes = V("numMeshes"), !.numSkins = V("numSkins"),
                      !.numNames = V("numNames")],
                   "bounds", r.ok /\ c.readsOk, c.ok, r.asserted, "")

\* mRadius, mTubeRadius, mCenter and mBounds.
RS_Bounds ==
  /\ phase = "read" /\ run.pc = "bounds"
  /\ \E x \in {Records(1, Words(11),
                        <<shape.radius, shape.tubeRadius>> \o shape.center \o shape.bounds)} :
     \E v \in {x.recs[1]} :
        /\ shape' = [shape EXCEPT !.radius = v[1], !.tubeRadius = v[2],
                                  !.center = <<v[3], v[4], v[5]>>,
                                  !.bounds = <<v[6], v[7], v[8], v[9], v[10], v[11]>>]
        /\ Section(x.st, x.ss, run, "nodes", x.ok, x.checked, x.asserted, "")

RS_Nodes ==
  /\ phase = "read" /\ run.pc = "nodes"
  /\ \E x \in {Records(run.numNodes, Words(5), Zeros(5))} :
        /\ shape' = [shape EXCEPT !.nodes = [i \in 1..Len(x.recs) |-> Node(x.recs[i])]]
        /\ Section(x.st, x.ss, run, "objects", x.ok, x.checked, x.asserted,
                   Stop(<<run.numNodes>>))

RS_Objects ==
  /\ phase = "read" /\ run.pc = "objects"
  /\ \E x \in {Records(run.numObjects, Words(6), Zeros(6))} :
        /\ shape' = [shape EXCEPT !.objects = [i \in 1..Len(x.recs) |-> Object(x.recs[i])]]
        /\ Section(x.st, x.ss, run, "decals", x.ok, x.checked, x.asserted,
                   Stop(<<run.numObjects>>))

\* readDecal reads nothing: the decals stay as resize() made them.
RS_Decals ==
  /\ phase = "read" /\ run.pc = "decals"
  /\ \E x \in {Records(run.numDecals, <<>>, <<>>)} :
        /\ shape' = [shape EXCEPT !.decals = [i \in 1..Len(x.recs) |-> Decal(Zeros(5))]]
        /\ Section(x.st, x.ss, run, "ifls", x.ok, x.checked, x.asserted,
                   Stop(<<run.numDecals>>))

RS_IflMaterials ==
  /\ phase = "read" /\ run.pc = "ifls"
  /\ \E x \in {Records(run.numIflMaterials, Words(5), Zeros(5))} :
        /\ shape' = [shape EXCEPT
                       !.iflMaterials = [i \in 1..Len(x.recs) |-> IflMaterial(x.recs[i])]]
        /\ Section(x.st, x.ss, run, "subshapes", x.ok, x.checked, x.asserted,
                   Stop(<<run.numIflMaterials>>))

\* The three columns firstNode, firstObject and firstDecal.
RS_SubShapes ==
  /\ phase = "read" /\ run.pc = "subshapes"
  /\ \E n \in {Clamp(run.numSubShapes)} :
     \E x \in {Records(3, Words(n), Zeros(n))} :
        /\ shape' = [shape EXCEPT
                       !.subshapes =
                          [i \in 1..n |->
                             [firstNode |-> x.recs[1][i], firstObject |-> x.recs[2][i],
                              firstDecal |-> x.recs[3][i], numNodes |-> 0,
                              numObjects |-> 0, numDecals |-> 0, firstTranslucent |-> 0]]]
        /\ Section(x.st, x.ss, run, "subshapeCounts", x.ok, x.checked, x.asserted,
                   Stop(<<run.numSubShapes>>))

\* numNodes, numObjects and numDecals of each subshape in turn.
RS_SubShapeCounts ==
  /\ phase = "read" /\ run.pc = "subshapeCounts"
  /\ \E n \in {Len(shape.subshapes)} :
     \E x \in {Records(n, Words(3), Zeros(3))} :
        /\ shape' = [shape EXCEPT
                       !.subshapes =
                          [i \in 1..n |->
                             [@[i] EXCEPT !.numNodes = x.recs[i][1],
                                          !.numObjects = x.recs[i][2],
                                          !.numDecals = x.recs[i][3],
                                          !.firstTranslucent = -1]]]
        /\ Section(x.st, x.ss, run, "keyframes", x.ok, x.checked, x.asserted, "")

Quat16Sizes == <<2, 2, 2, 2>>
\* A Point3F followed by a Quat16.
FrameSizes == <<4, 4, 4, 2, 2, 2, 2>>

\* The mesh index list of a version below 16, the default rotation and
\* translation of every node, then the node translations and node rotations.
RS_Keyframes ==
  /\ phase = "read" /\ run.pc = "keyframes"
  /\ \E old \in {ss.dtsVersion < 16} :
     \E sz \in {IF old THEN splitRead(heap, st, 4, 0, env.junk)
                ELSE [st |-> st, val |-> 0, ok |-> TRUE]} :
     \E cnt \in {IF Huge(sz.val) THEN (sz.st.b32.mSize \div 4) + 1 ELSE sz.val} :
     \E list \in {IF old THEN splitReadN(heap, sz.st, 4, cnt, <<>>, env.junk)
                  ELSE [st |-> st, ok |-> TRUE]} :
     \E d \in {ReadRecords(heap, list.st, Len(shape.nodes), Quat16Sizes \o Words(3),
                           Zeros(7), env.junk)} :
     \E t \in {ReadRecords(heap, d.st, Clamp(run.numNodeTrans), Words(3), Zeros(3),
                           env.junk)} :
     \E r \in {ReadRecords(heap, t.st, Clamp(run.numNodeRots), Quat16Sizes, Zeros(4),
                           env.junk)} :
     \E c \in {readCheck(heap, r.st, ss, env.junk)} :
     \E far \in {Stop(<<run.numNodeTrans, run.numNodeRots>>)} :
     \* read32 stored cnt words through &meshIndexList[0], and the vector is empty
     \E stop \in (IF old /\ list.ok /\ cnt > 0 THEN {"", "crashed"} ELSE {""}) :
        /\ shape' = [shape EXCEPT
                       !.defaultRotations = [i \in 1..Len(d.recs) |-> SubSeq(d.recs[i], 1, 4)],
                       !.defaultTranslations = [i \in 1..Len(d.recs) |-> SubSeq(d.recs[i], 5, 7)],
                       !.nodeTranslations = t.recs,
                       !.nodeRotations = r.recs]
        /\ Section(c.st, c.ss, run, "scales",
                   sz.ok /\ list.ok /\ d.ok /\ t.ok /\ r.ok /\ c.readsOk, c.ok, FALSE,
                   IF far # "" THEN far ELSE stop)

\* An array resized to n elements of which the first Len(recs) were read.
Sized(n, recs, dflt) == [i \in 1..Clamp(n) |-> IF i <= Len(recs) THEN recs[i] ELSE dflt]

\* The uniform, aligned and arbitrary scales.  An aligned scale is read with
\* read(T&) for a T of 12 bytes.
RS_Scales ==
  /\ phase = "read" /\ run.pc = "scales"
  /\ \E gated \in {ss.dtsVersion > 21} :
     \E u \in {ReadRecords(heap, st,
                           IF gated THEN Clamp(run.numNodeUniformScales) ELSE 0,
                           <<4>>, <<0>>, env.junk)} :
     \E a \in {ReadRecords(heap, u.st,
                           IF gated THEN Clamp(run.numNodeAlignedScales) ELSE 0,
                           <<12>>, <<<<0, 0, 0>>>>, env.junk)} :
     \E b \in {ReadRecords(heap, a.st,
                           IF gated THEN Clamp(run.numNodeArbitraryScales) ELSE 0,
                           FrameSizes, Zeros(7), env.junk)} :
     \E c \in {readCheck(heap, b.st, ss, env.junk)} :
        /\ shape' = [shape EXCEPT
                       !.nodeUniformScales =
                          Sized(run.numNodeUniformScales, u.recs, <<0>>),
                       !.nodeAlignedScales =
                          Sized(run.numNodeAlignedScales, a.recs, <<<<0, 0, 0>>>>),
                       !.nodeArbitraryScaleFactors =
                          Sized(run.numNodeArbitraryScales,
                                [i \in 1..Len(b.recs) |-> SubSeq(b.recs[i], 1, 3)], Zeros(3)),
                       !.nodeArbitraryScaleRotations =
                          Sized(run.numNodeArbitraryScales,
                                [i \in 1..Len(b.recs) |-> SubSeq(b.recs[i], 4, 7)], Zeros(4))]
        /\ Section(c.st, c.ss, run, "ground", u.ok /\ a.ok /\ b.ok /\ c.readsOk, c.ok,
                   a.asserted,
                   Stop(<<run.numNodeUniformScales, run.numNodeAlignedScales,
                          run.numNodeArbitraryScales>>))

RS_Ground ==
  /\ phase = "read" /\ run.pc = "ground"
  /\ \E x \in {Records(run.numGroundFrames, FrameSizes, Zeros(7))} :
        /\ shape' = [shape EXCEPT
                       !.groundTranslations = [i \in 1..Len(x.recs) |-> SubSeq(x.recs[i], 1, 3)],
                       !.groundRotations = [i \in 1..Len(x.recs) |-> SubSeq(x.recs[i], 4, 7)]]
        /\ Section(x.st, x.ss, run, "objectStates", x.ok, x.checked, x.asserted,
                   Stop(<<run.numGroundFrames>>))

RS_ObjectStates ==
  /\ phase = "read" /\ run.pc = "objectStates"
  /\ \E x \in {Records(run.numObjectStates, Words(3), ObjectStateDefaults)} :
        /\ shape' = [shape EXCEPT
                       !.objectStates =
                          [i \in 1..Len(x.recs) |->
                             [vis |-> x.recs[i][1], frame |-> x.recs[i][2],
                              matFrame |-> x.recs[i][3]]]]
        /\ Section(x.st, x.ss, run, "decalStates", x.ok, x.checked, x.asserted,
                   Stop(<<run.numObjectStates>>))

RS_DecalStates ==
  /\ phase = "read" /\ run.pc = "decalStates"
  /\ \E x \in {Records(run.numDecalStates, <<4>>, <<0>>)} :
        /\ shape' = [shape EXCEPT
                       !.decalStates = [i \in 1..Len(x.recs) |-> [frame |-> x.recs[i][1]]]]
        /\ Section(x.st, x.ss, run, "triggers", x.ok, x.checked, x.asserted,
                   Stop(<<run.numDecalStates>>))

\* A Trigger that resize() constructs holds 1 << -1 in state: any value.
RS_Triggers ==
  /\ phase = "read" /\ run.pc = "triggers"
  /\ \E x \in {Records(run.numTriggers, Words(2), <<env.junk, 0>>)} :
        /\ shape' = [shape EXCEPT
                       !.triggers =
                          [i \in 1..Len(x.recs) |->
                             [state |-> x.recs[i][1], pos |-> x.recs[i][2]]]]
        /\ Section(x.st, x.ss, run, "details", x.ok, x.checked, x.asserted,
                   Stop(<<run.numTriggers>>))

RS_Details ==
  /\ phase = "read" /\ run.pc = "details"
  /\ \E x \in {Records(run.numDetails, Words(7), DetailLevelDefaults)} :
        /\ shape' = [shape EXCEPT
                       !.detailLevels = [i \in 1..Len(x.recs) |-> DetailLevel(x.recs[i])]]
        /\ Section(x.st, x.ss, run, "meshes", x.ok, x.checked, x.asserted,
                   Stop(<<run.numDetails>>))

\* Mesh(): a mesh as resize() constructs it.
NewMesh ==
  [mType |-> T_Null, mFlags |-> 0, mNumFrames |-> 1, mNumMatFrames |-> 1,
   mVertsPerFrame |-> 0, mParent |-> -1, mRadius |-> 0]

\* readMesh for a mesh whose mType was set: a Null mesh reads nothing and
\* returns false.  The bodies of the other mesh types are not followed.
readMesh(h, S, sps, mesh, junk) ==
  IF mesh.mType = T_Null
  THEN [st |-> S, ss |-> sps, mesh |-> mesh, ret |-> FALSE, followed |-> TRUE]
  ELSE [st |-> S, ss |-> sps, mesh |-> mesh, ret |-> TRUE, followed |-> FALSE]

\* The loop over the meshes of a version above 15: mType, then the body.
RECURSIVE ReadMeshes(_, _, _, _, _)
ReadMeshes(h, S, sps, count, junk) ==
  IF count <= 0
  THEN [st |-> S, ss |-> sps, meshes |-> <<>>, ok |-> TRUE, followed |-> TRUE]
  ELSE With(splitRead(h, S, 4, NewMesh.mType, junk), LAMBDA t :
       With(readMesh(h, t.st, sps, [NewMesh EXCEPT !.mType = t.val], junk), LAMBDA m :
         IF ~m.followed
         THEN [st |-> m.st, ss |-> m.ss, meshes |-> <<m.mesh>>, ok |-> t.ok,
               followed |-> FALSE]
         ELSE With(ReadMeshes(h, m.st, m.ss, count - 1, junk), LAMBDA rest :
                [st |-> rest.st, ss |-> rest.ss,
                 meshes |-> <<m.mesh>> \o rest.meshes,
                 ok |-> t.ok /\ rest.ok, followed |-> rest.followed])))

\* The meshes.  For a version of 15 or less the loop runs over the mesh index
\* list, which is empty, and an assert(false) follows it.
RS_Meshes ==
  /\ phase = "read" /\ run.pc = "meshes"
  /\ \E newer \in {ss.dtsVersion > 15} :
     \E n \in {Clamp(run.numMeshes)} :
     \E r \in {IF newer THEN ReadMeshes(heap, st, ss, n, env.junk)
               ELSE [st |-> st, ss |-> ss, meshes |-> [i \in 1..n |-> NewMesh],
                     ok |-> TRUE, followed |-> TRUE]} :
     \E c \in {readCheck(heap, r.st, r.ss, env.junk)} :
     \E far \in {Stop(<<run.numMeshes>>)} :
        /\ shape' = [shape EXCEPT
                       !.meshes = [i \in 1..n |->
                                     IF i <= Len(r.meshes) THEN r.meshes[i] ELSE NewMesh]]
        /\ Section(c.st, c.ss, run, "names", r.ok /\ c.readsOk, c.ok, ~newer,
                   IF far # "" THEN far ELSE IF ~r.followed THEN "beyond" ELSE "")

\* readNullString on stream C: a length byte, then that many bytes.  A string
\* that cannot be read is left empty.
readNullString(h, s, junk) ==
  With(readScalar(h, s, 1, 0, junk), LAMBDA len :
  With(Advance(s, 1), LAMBDA s1 :
    [s |-> Advance(s1, len), str |-> readBytes(h, s1, len, <<>>, junk),
     ok |-> CanAccess(s, 1) /\ CanAccess(s1, len)]))

toLower(str) == [i \in 1..Len(str) |-> IF str[i] >= 65 /\ str[i] <= 90 THEN str[i] + 32 ELSE str[i]]

\* NameTable::addString with caseSensitive = false.
addString(strings, str) ==
  IF \E i \in 1..Len(strings) : toLower(strings[i]) = toLower(str)
  THEN strings
  ELSE Append(strings, str)

RECURSIVE ReadNames(_, _, _, _, _)
ReadNames(h, s, count, strings, junk) ==
  IF count <= 0 THEN [s |-> s, strings |-> strings, ok |-> TRUE]
  ELSE With(readNullString(h, s, junk), LAMBDA r :
       With(addString(strings, r.str), LAMBDA added :
       With(ReadNames(h, r.s, count - 1, added, junk), LAMBDA t :
         [s |-> t.s, strings |-> t.strings, ok |-> r.ok /\ t.ok])))

\* The names.  The loop allocates nothing ahead, so a count of 2^31 or more
\* only makes it long.
RS_Names ==
  /\ phase = "read" /\ run.pc = "names"
  /\ \E r \in {ReadNames(heap, st.b8, Clamp(run.numNames), shape.names, env.junk)} :
     \E c \in {readCheck(heap, [st EXCEPT !.b8 = r.s], ss, env.junk)} :
        /\ shape' = [shape EXCEPT !.names = r.strings]
        /\ Section(c.st, c.ss, run, IF ss.dtsVersion < 23 THEN "skins" ELSE "finish",
                   r.ok /\ c.readsOk, c.ok, FALSE,
                   IF Huge(run.numNames) \/ run.numNames > MaxFollow THEN "beyond" ELSE "")

\* correctPreV32Skins when there is no skin: it returns at once.
correctPreV32Skins(sh, detailFirstSkin, detailNumSkins, numMeshes, numSkins, numDetails) ==
  IF numSkins = 0 \/ numDetails = 0 \/ Len(detailFirstSkin) < numDetails
       \/ Len(detailNumSkins) < numDetails
  THEN [shape |-> sh, followed |-> TRUE]
  ELSE [shape |-> sh, followed |-> FALSE]

\* A version below 23: detailFirstSkin, detailNumSkins, a readCheck, the
\* skins, a readCheck, the migration of the skins and an assert(false).
RS_Skins ==
  /\ phase = "read" /\ run.pc = "skins"
  /\ \E nd \in {Clamp(run.numDetails)} :
     \E ns \in {Clamp(run.numSkins)} :
     \E f \in {ReadFields(heap, st, Words(nd), Zeros(nd), env.junk)} :
     \E k \in {ReadFields(heap, f.st, Words(ns), Zeros(ns), env.junk)} :
     \E c1 \in {readCheck(heap, k.st, ss, env.junk)} :
     \E c2 \in {readCheck(heap, c1.st, c1.ss, env.junk)} :
     \E m \in {correctPreV32Skins(shape, f.vals, k.vals, run.numMeshes, run.numSkins,
                                  run.numDetails)} :
     \E far \in {Stop(<<run.numSkins>>)} :
        /\ shape' = m.shape
        /\ Section(c2.st, c2.ss, run, "finish",
                   f.ok /\ k.ok /\ c1.readsOk /\ c2.readsOk, c1.ok /\ c2.ok, TRUE,
                   IF far # "" THEN far
                   ELSE IF run.numSkins > 0 \/ ~m.followed THEN "beyond" ELSE "")

\* mPreviousMerge, mExportMerge, and `return true`.
RS_Finish ==
  /\ phase = "read" /\ run.pc = "finish"
  /\ shape' = [shape EXCEPT
                 !.previousMerge = [i \in 1..run.numObjects |-> -1],
                 !.exportMerge = ss.dtsVersion >= 23]
  /\ run' = [run EXCEPT !.pc = "done"]
  /\ phase' = "done"
  /\ ret' = TRUE
  /\ lastOp' = [op |-> "finish", n |-> 0]
  /\ prev' = [st |-> st, ss |-> ss]
  /\ UNCHANGED <<heap, st, ss, env, dest, log, steps>>

\* BasicStream::readHeader: sixteen bytes into a zeroed hdr, version taken
\* from hdr[1]; the function ends without a return statement, so the caller
\* sees either value.  BasicStream has no read(), so no readShape follows.
LinearReadHeader ==
  /\ phase = "openLinear"
  /\ \E hdr1 \in {IF CanAccess(st.src, HeaderBytes)
                  THEN HdrWord(heap, st.src, 1, env.junk) ELSE 0} :
        /\ st' = [st EXCEPT !.src = Advance(@, HeaderBytes)]
        /\ ss' = [ss EXCEPT !.dtsVersion = hdr1 % 65536]
  /\ \E r \in BOOLEAN : ret' = r
  /\ phase' = "linearDone"
  /\ lastOp' = [op |-> "readHeader", n |-> 0]
  /\ prev' = [st |-> st, ss |-> ss]
  /\ UNCHANGED <<heap, env, dest, log, steps, shape, run>>


(***************************************************************************)
(* The input shapes: a file laid out as readShape consumes it, for each    *)
(* version, with `nodes` nodes and `items` entries in every other          *)
(* collection, whole or altered in one place.                              *)
(***************************************************************************)
Versions == {14, 18, 21, 22, 23, 24, 25}
ParentVals == {-1, 0, BadIndex}
Corruptions == {"none", "check", "count", "tail"}
\* What an input file holds in the firstObject, firstChild and nextSibling
\* words of a node and the nextSibling and firstDecal words of an object.
RuntimeVals == {-1, 1}
LinearExporter == 2

\* Values of n bytes each, in file order; a checkpoint is an entry with n = 0.
W(n, vals) == [i \in 1..Len(vals) |-> [n |-> n, v |-> vals[i], w |-> vals[i]]]
Chk(i, t) == <<[n |-> 0, v |-> i, w |-> IF i = t THEN i + 1 ELSE i]>>

RECURSIVE Rep(_, _)
Rep(items, k) == IF k <= 0 THEN <<>> ELSE items \o Rep(items, k - 1)

RECURSIVE NodeItems(_, _)
NodeItems(inp, i) ==
  IF i > inp.nodes THEN <<>>
  ELSE W(4, <<IF inp.items > 0 THEN 0 ELSE -1,
              IF i = inp.nodes THEN inp.parent ELSE i - 2,
              inp.runtime, inp.runtime, inp.runtime>>)
         \o NodeItems(inp, i + 1)

RECURSIVE NameItems(_, _)
NameItems(inp, i) ==
  IF i > inp.items THEN <<>> ELSE W(1, <<1, 96 + i>>) \o NameItems(inp, i + 1)

UnitQuat == W(2, <<0, 0, 0, 1>>)

ShapeItems(inp) ==
  LET v == inp.version
      k == inp.items
      nn == inp.nodes
      d == inp.decals
      t == inp.tamper
      nameRef == IF k > 0 THEN 0 ELSE -1
      nodeRef == IF nn > 0 THEN 0 ELSE -1
      objRef == IF k > 0 THEN 0 ELSE -1
  IN W(4, <<nn, k, d, k, k>>)
     \o (IF v >= 22 THEN W(4, <<k, k, k, 0, k>>) ELSE W(4, <<k + nn>>))
     \o (IF v > 23 THEN W(4, <<k>>) ELSE <<>>)
     \o W(4, <<k, k, k, k, k>>)
     \o (IF v < 23 THEN W(4, <<0>>) ELSE <<>>)
     \o W(4, <<IF inp.corrupt = "count" THEN k + 1 ELSE k, 1, 0>>) \o Chk(0, t)
     \o W(4, <<1, 1, 0, 0, 0, -1, -1, -1, 1, 1, 1>>) \o Chk(1, t)
     \o NodeItems(inp, 1) \o Chk(2, t)
     \o Rep(W(4, <<nameRef, 1, 0, nodeRef, inp.runtime, inp.runtime>>), k) \o Chk(3, t)
     \o Rep(W(4, <<nameRef, 0, 0, objRef, -1>>), d) \o Chk(4, t)
     \o Rep(W(4, <<nameRef, 0, 0, 1, 1>>), k) \o Chk(5, t)
     \o Rep(W(4, <<0>>), 3 * k) \o Chk(6, t)
     \o Rep(W(4, <<nn, k, d>>), k) \o Chk(7, t)
     \o (IF v < 16 THEN W(4, <<0>>) ELSE <<>>)
     \o Rep(UnitQuat \o W(4, <<0, 0, 0>>), nn)
     \o Rep(W(4, <<0, 0, 0>>), k) \o Rep(UnitQuat, k) \o Chk(8, t)
     \o (IF v > 21 THEN Rep(W(4, <<1>>), k) \o Rep(W(4, <<1, 1, 1>>) \o UnitQuat, k)
         ELSE <<>>) \o Chk(9, t)
     \o (IF v > 23 THEN Rep(W(4, <<0, 0, 0>>) \o UnitQuat, k) ELSE <<>>) \o Chk(10, t)
     \o Rep(W(4, <<1, 0, 0>>), k) \o Chk(11, t)
     \o Rep(W(4, <<0>>), k) \o Chk(12, t)
     \o Rep(W(4, <<1, 0>>), k) \o Chk(13, t)
     \o Rep(W(4, <<nameRef, 0, 0, 1, -1, -1, 0>>), k) \o Chk(14, t)
     \o Rep(W(4, <<T_Null>>), k) \o Chk(15, t)
     \o NameItems(inp, 1) \o Chk(16, t)
     \o (IF v < 23 THEN Rep(W(4, <<0>>), k) \o Chk(17, t) \o Chk(18, t) ELSE <<>>)

InA(x) == x.n = 4 \/ x.n = 0
InB(x) == x.n = 2 \/ x.n = 0
InC(x) == x.n = 1 \/ x.n = 0

\* What follows the split payload in the base stream: the sequences and the
\* material list.
BaseTail(inp) ==
  LET k == inp.items
      seq == <<IF k > 0 THEN 0 ELSE -1, 0, 1, 1, 0, 0, 0, 0, 0, 0, 0, 0, 0, 0, 0>>
  IN Encode(<<k>>, 4) \o Rep(Encode(seq \o Zeros(16), 4), k)
       \o <<BINARY_FILE_VERSION>> \o Encode(<<k>>, 4) \o Rep(<<1, 109>>, k)
       \o Encode(Zeros(6 * k), 4)

ShapeFile(inp) ==
  With(ShapeItems(inp), LAMBDA items :
  With(SelectSeq(items, InA), LAMBDA a :
  With(SelectSeq(items, InB), LAMBDA b :
  With(SelectSeq(items, InC), LAMBDA c :
    SplitFile(inp.version,
              [i \in 1..Len(a) |-> a[i].w],
              [i \in 1..Len(b) |-> IF b[i].n = 0 THEN StoreCheck16(b[i].v) ELSE b[i].v],
              [i \in 1..Len(c) |-> IF c[i].n = 0 THEN StoreCheck8(c[i].v) ELSE c[i].v])
      \o (IF inp.corrupt = "tail" THEN <<>> ELSE BaseTail(inp))))))

LinearFile(inp) ==
  Encode(<<inp.magic, inp.version + LinearExporter * 65536, 0, 0>>, 4)

Inputs ==
  {inp \in [layout : {"split", "linear"}, version : Versions, nodes : 0..MaxNodes,
            items : 0..MaxItems, decals : 0..MaxDecals, parent : ParentVals,
            corrupt : Corruptions, tamper : -1..MaxTamper, magic : {LinearMagic, 0},
            runtime : RuntimeVals] :
     /\ (inp.nodes = 0 => inp.parent = -1)
     /\ (inp.runtime # -1 =>
           inp.nodes > 0 /\ inp.parent = -1 /\ inp.corrupt = "none" /\ inp.decals = 0)
     /\ (inp.corrupt = "check" <=> inp.tamper >= 0)
     /\ (inp.decals > 0 => inp.items > 0 /\ inp.corrupt = "none" /\ inp.parent = -1)
     /\ (inp.layout = "split" => inp.magic = LinearMagic)
     /\ (inp.layout = "linear" =>
           inp.nodes = 0 /\ inp.items = 0 /\ inp.decals = 0 /\ inp.corrupt = "none")}

InitShape ==
  /\ \E inp \in Inputs :
       /\ log = inp
       /\ heap = [b \in {"file"} |->
                    IF inp.layout = "split" THEN ShapeFile(inp) ELSE LinearFile(inp)]
       /\ phase = IF inp.layout = "split" THEN "open" ELSE "openLinear"
  /\ st = [NullStreams EXCEPT !.src = MemRStream("file", 0, Len(heap.file), TRUE)]
  /\ ss = NewSplitStream
  /\ \E nd \in BOOLEAN : env = [ndebug |-> nd, junk |-> 0]
  /\ dest = <<>>
  /\ ret = TRUE
  /\ lastOp = [op |-> "init", n |-> 0]
  /\ prev = [st |-> NullStreams, ss |-> NewSplitStream]
  /\ steps = 0
  /\ shape = NewShape(env.junk)
  /\ run = NewRun

NextShape ==
  \/ SplitFlood \/ LinearReadHeader
  \/ RS_Base \/ RS_Counts \/ RS_Bounds \/ RS_Nodes \/ RS_Objects \/ RS_Decals
  \/ RS_IflMaterials \/ RS_SubShapes \/ RS_SubShapeCounts \/ RS_Keyframes \/ RS_Scales
  \/ RS_Ground \/ RS_ObjectStates \/ RS_DecalStates \/ RS_Triggers \/ RS_Details
  \/ RS_Meshes \/ RS_Names \/ RS_Skins \/ RS_Finish

SpecShape == InitShape /\ [][NextShape]_vars

\* The decode has returned true.
Decoded == phase = "done" /\ ret = TRUE

\* C1: readShape never returns true after one of its readCheck calls
\* returned false.
C1_MismatchFails == Decoded => ~run.checkFailed

\* C2: readShape never returns true after one of its reads failed because
\* it would have moved a cursor past the end of its buffer.
C2_ShortReadFails == Decoded => ~run.readFailed

\* C3: a decode succeeds only for a version in 15..24 (and, for the linear
\* layout, the magic 861099076), and for every version in 15..24 header
\* parsing sets the decode up and lets it proceed.
C3_VersionGate ==
  LET inRange == log.version >= 15 /\ log.version <= 24
      supported == inRange /\ (log.layout = "linear" => log.magic = LinearMagic)
  IN /\ (Decoded => supported)
     /\ (phase = "linearDone" => (ret = TRUE <=> supported))
     /\ (lastOp.op = "flood" /\ inRange) => (phase = "read" /\ st.b32.buf = "file")

ValidIndex(i, n) == i = -1 \/ (0 <= i /\ i < n)
ValidRange(first, count, n) == count = 0 \/ (0 <= first /\ 0 < count /\ first + count <= n)

\* C10: after a successful readShape every node parent, object node, decal
\* object, name index, detail-level subshape and object or decal mesh range
\* stored in the Shape is -1 or lies inside the collection it refers to.
C10_IndicesValid ==
  Decoded =>
    LET names == Len(shape.names)
    IN /\ \A i \in 1..Len(shape.nodes) :
            /\ ValidIndex(shape.nodes[i].parent, Len(shape.nodes))
            /\ ValidIndex(shape.nodes[i].name, names)
       /\ \A i \in 1..Len(shape.objects) :
            /\ ValidIndex(shape.objects[i].node, Len(shape.nodes))
            /\ ValidIndex(shape.objects[i].name, names)
            /\ ValidRange(shape.objects[i].firstMesh, shape.objects[i].numMeshes,
                          Len(shape.meshes))
       /\ \A i \in 1..Len(shape.decals) :
            /\ ValidIndex(shape.decals[i].object, Len(shape.objects))
            /\ ValidIndex(shape.decals[i].name, names)
            /\ ValidRange(shape.decals[i].firstMesh, shape.decals[i].numMeshes,
                          Len(shape.meshes))
       /\ \A i \in 1..Len(shape.detailLevels) :
            /\ ValidIndex(shape.detailLevels[i].subshape, Len(shape.subshapes))
            /\ ValidIndex(shape.detailLevels[i].name, names)
       /\ \A i \in 1..Len(shape.iflMaterials) : ValidIndex(shape.iflMaterials[i].name, names)
       /\ \A i \in 1..Len(shape.sequences) :
            ValidIndex(shape.sequences[i].fields[1], names)

\* C11: right after readShape has returned, every node has firstChild,
\* firstObject and nextSibling equal to -1 and every object has nextSibling
\* and firstDecal equal to -1, whatever the file holds in those words.
C11_RuntimeFieldsReset ==
  Decoded =>
    /\ \A i \in 1..Len(shape.nodes) :
         /\ shape.nodes[i].firstChild = -1
         /\ shape.nodes[i].firstObject = -1
         /\ shape.nodes[i].nextSibling = -1
    /\ \A i \in 1..Len(shape.objects) :
         /\ shape.objects[i].nextSibling = -1
         /\ shape.objects[i].firstDecal = -1

\* The i-th word, counted from 1, that lies at the cursor stream A had when
\* the last section started.
CountWord(i) ==
  LE(heap, prev.st.b32.buf, prev.st.b32.mPtr + prev.st.b32.mPos + 4 * (i - 1), 4, env.junk)

\* The counts section has just run on a stream A that holds all its words.
CountsRead == lastOp.op = "counts" /\ CanAccess(prev.st.b32, 80)

\* C12: for a version of 22 or more readShape reads five node-keyframe
\* counts (rotations, translations, uniform, aligned and arbitrary scales),
\* the words 6 to 10 of the counts; for a version below 22 it reads one
\* combined count, word 6, sets the rotation and translation counts to that
\* word minus the node count and leaves the three scale counts 0.
C12_KeyframeCounts ==
  CountsRead =>
    IF ss.dtsVersion >= 22
    THEN /\ run.numNodeRots = CountWord(6)
         /\ run.numNodeTrans = CountWord(7)
         /\ run.numNodeUniformScales = CountWord(8)
         /\ run.numNodeAlignedScales = CountWord(9)
         /\ run.numNodeArbitraryScales = CountWord(10)
         /\ (IF ss.dtsVersion > 23 THEN run.numGroundFrames ELSE run.numObjectStates)
              = CountWord(11)
    ELSE /\ run.numNodeRots = CountWord(6) - CountWord(1)
         /\ run.numNodeTrans = CountWord(6) - CountWord(1)
         /\ run.numNodeUniformScales = 0
         /\ run.numNodeAlignedScales = 0
         /\ run.numNodeArbitraryScales = 0
         /\ run.numObjectStates = CountWord(7)

C12_Witness ==
  /\ CountsRead /\ ss.dtsVersion = 21
  /\ run.numNodes = 2 /\ CountWord(6) = 3 /\ run.numNodeRots = 1 /\ run.numNodeTrans = 1

\* The number of count words a version has when it has a word for the
\* ground frames only above 23: five, the keyframe counts, the ground frames,
\* five, the skins of a version below 23, and three.
CountWordsStated(version) ==
  5 + (IF version >= 22 THEN 5 ELSE 1) + (IF version > 23 THEN 1 ELSE 0) + 5
    + (IF version < 23 THEN 1 ELSE 0) + 3

\* C13: readShape reads a ground-frame count only for a version above 23.
\* For a version of 23 or less the counts section consumes no word for it
\* (the word after the keyframe counts is the object-state count and the
\* section moves stream A by its other counts and one checkpoint), the count
\* is 0, and the decoded Shape has no ground translation and no ground
\* rotation.
C13_GroundFrames ==
  /\ CountsRead =>
       /\ st.b32.mPos - prev.st.b32.mPos = 4 * (CountWordsStated(ss.dtsVersion) + 1)
       /\ IF ss.dtsVersion > 23
          THEN run.numGroundFrames = CountWord(11)
          ELSE /\ run.numGroundFrames = 0
               /\ run.numObjectStates = CountWord(IF ss.dtsVersion >= 22 THEN 11 ELSE 7)
  /\ (run.pc = "done" /\ ss.dtsVersion <= 23) =>
       /\ Len(shape.groundTranslations) = 0
       /\ Len(shape.groundRotations) = 0

C13_Witness ==
  /\ Decoded /\ ss.dtsVersion = 23 /\ log.items = 1 /\ log.corrupt = "none"
  /\ Len(shape.groundTranslations) = 0 /\ Len(shape.objectStates) = 1

(***************************************************************************)
(* IO::correctPreV32Skins, called with a mesh array of numMeshes +         *)
(* numSkins entries.  shape holds the five arrays it works on, run its     *)
(* locals, log the arguments and the arrays as they were at the call.      *)
(***************************************************************************)
MaxBaseMeshes == 1   \* meshes before the tail, and objects, of an input
MaxSkins == 2        \* skins in the tail of an input
MaxSkinDetails == 2  \* detail levels of an input

T_Skin == 1
FirstVals == {-1, 0, 1}
CountVals == {0, 2}

\* A mesh of the tail: mData is the number of the skin it was read as, 0 for none.
SkinMesh(type, data) == [mType |-> type, mFlags |-> 0, mData |-> data]
NullMesh == SkinMesh(T_Null, 0)

\* Object obj{} as the loop of the migrator fills it in.
SkinObject(firstMesh, numMeshes) ==
  [name |-> 0, numMeshes |-> numMeshes, firstMesh |-> firstMesh, node |-> -1,
   nextSibling |-> -1, firstDecal |-> -1]

\* std::min<int32_t>(a, b)
Min(a, b) == IF a < b THEN a ELSE b

\* takeSkin over i = first .. end - 1: the first skin of the range that is
\* not Null, or -1.
FirstPresent(meshes, numMeshes, first, end) ==
  LET live == {i \in first..(end - 1) : meshes[numMeshes + i + 1].mType # T_Null}
  IN IF live = {} THEN -1 ELSE CHOOSE i \in live : \A j \in live : i <= j

\* The body of `for (dl ...)` for the detail levels dl .. numDetails - 1.
\* acc holds meshes, skinsCopy, skinsUsed and obj.numMeshes.
RECURSIVE SkinDetails(_, _, _)
SkinDetails(inp, dl, acc) ==
  IF dl >= inp.numDetails THEN acc
  ELSE With(inp.detailFirstSkin[dl + 1], LAMBDA first :
       With(inp.detailNumSkins[dl + 1], LAMBDA cnt :
       With(IF first >= 0 /\ cnt > 0
            THEN FirstPresent(acc.meshes, inp.numMeshes, first,
                              Min(first + cnt, inp.numSkins))
            ELSE -1, LAMBDA i :
       With(IF i >= 0
            THEN [meshes |-> [acc.meshes EXCEPT ![inp.numMeshes + i + 1] = NullMesh],
                  skinsCopy |-> Append(acc.skinsCopy, acc.meshes[inp.numMeshes + i + 1]),
                  skinsUsed |-> acc.skinsUsed + 1,
                  numMeshes |-> acc.numMeshes + 1]
            ELSE [meshes |-> acc.meshes,
                  skinsCopy |-> Append(acc.skinsCopy, NullMesh),
                  skinsUsed |-> acc.skinsUsed,
                  numMeshes |-> acc.numMeshes + 1], LAMBDA next :
         SkinDetails(inp, dl + 1, next)))))

\* TrimNulls that leaves the trailing placeholders in place.
TrimNullsMut(acc) == acc

\* `while (!skinsCopy.empty() && skinsCopy.back().mType == T_Null)`.
RECURSIVE TrimNulls(_)
TrimNulls(acc) ==
  IF acc.skinsCopy # <<>> /\ acc.skinsCopy[Len(acc.skinsCopy)].mType = T_Null
  THEN TrimNulls([acc EXCEPT !.skinsCopy = SubSeq(@, 1, Len(@) - 1),
                             !.numMeshes = @ - 1])
  ELSE acc

\* The test after the count of present skins.
NothingPresentMut(present) == FALSE
NothingPresent(present) == present = 0

\* The number of skins of the tail that are not Null.
PresentSkins(meshes, numMeshes, numSkins) ==
  Cardinality({i \in 1..numSkins : meshes[numMeshes + i].mType # T_Null})

\* InsertStates with the default states put after the last state.
InsertStatesMut(states, insertAt, n) ==
  states \o [i \in 1..n |-> [vis |-> FloatOne, frame |-> 0, matFrame |-> 0]]

\* The object-state array after n default states were inserted at insertAt.
\* With fewer than insertAt states the memmove is given a length below zero:
\* what is left is the resized array with the defaults stored where they fit.
InsertStates(states, insertAt, n) ==
  LET dflt == [vis |-> FloatOne, frame |-> 0, matFrame |-> 0]
  IN IF Len(states) >= insertAt
     THEN SubSeq(states, 1, insertAt) \o [i \in 1..n |-> dflt]
            \o SubSeq(states, insertAt + 1, Len(states))
     ELSE states \o [i \in 1..n |-> dflt]

\* The call in readShape, made for a version below 23, up to the loop: the
\* early returns and the count of the skins that are present.
MigrateCall ==
  /\ phase = "skins" /\ run.pc = "call"
  /\ \E early \in {log.version >= 23 \/ log.numSkins = 0 \/ log.numDetails = 0
                     \/ Len(log.detailFirstSkin) < log.numDetails
                     \/ Len(log.detailNumSkins) < log.numDetails} :
     \E present \in {IF early THEN 0
                     ELSE PresentSkins(shape.meshes, log.numMeshes, log.numSkins)} :
        run' = [run EXCEPT !.pc = IF early \/ NothingPresent(present) THEN "done" ELSE "loop",
                           !.present = present,
                           !.oldNumObjects = Len(shape.objects)]
  /\ lastOp' = [op |-> "migrateCall", n |-> 0]
  /\ UNCHANGED <<heap, st, ss, env, phase, dest, ret, prev, log, steps, shape>>

\* HasMeshes that lets every object through.
HasMeshesMut(numMeshes) == TRUE

\* `if (obj.numMeshes > 0)`: only an object that has meshes is added.
HasMeshes(numMeshes) == numMeshes > 0

\* One turn of `while (skinsUsed < present)`.
MigratePass ==
  /\ phase = "skins" /\ run.pc = "loop" /\ run.skinsUsed < run.present
  /\ \E acc \in {TrimNulls(SkinDetails(log, 0,
                              [meshes |-> shape.meshes, skinsCopy |-> run.skinsCopy,
                               skinsUsed |-> run.skinsUsed, numMeshes |-> 0]))} :
        /\ shape' = [shape EXCEPT
                       !.meshes = acc.meshes,
                       !.objects = IF HasMeshes(acc.numMeshes)
                                   THEN Append(@, SkinObject(log.numMeshes + Len(run.skinsCopy),
                                                             acc.numMeshes))
                                   ELSE @]
        /\ run' = [run EXCEPT !.skinsCopy = acc.skinsCopy,
                              !.skinsUsed = acc.skinsUsed,
                              !.numSkinObjects = IF HasMeshes(acc.numMeshes) THEN @ + 1 ELSE @]
  /\ lastOp' = [op |-> "migratePass", n |-> 0]
  /\ UNCHANGED <<heap, st, ss, env, phase, dest, ret, prev, log, steps>>

\* ShiftSequences that moves the first sequence only.
ShiftSequencesMut(sequences, n) ==
  [i \in 1..Len(sequences) |->
     IF i = 1 THEN [sequences[i] EXCEPT !.baseObjectState = @ + n] ELSE sequences[i]]

\* `for (auto& seq : sequences) seq.baseObjectState += int(n);`
ShiftSequences(sequences, n) ==
  [i \in 1..Len(sequences) |-> [sequences[i] EXCEPT !.baseObjectState = @ + n]]

\* After the loop: the skins are written back into the tail, the mesh array
\* is resized, and the subshape, the object states and the sequences are
\* adjusted.  A skinsCopy longer than the tail is written past the end of the
\* mesh array, and object states fewer than the old object count give the
\* memmove a length below zero: either ends the run or goes unnoticed.
MigrateWriteBack ==
  /\ phase = "skins" /\ run.pc = "loop" /\ run.skinsUsed >= run.present
  /\ \E n \in {run.numSkinObjects} :
     \E wild \in {Len(run.skinsCopy) > log.numSkins
                    \/ (n > 0 /\ Len(shape.objectStates) < run.oldNumObjects)} :
     \E outcome \in (IF wild THEN {"crashed", "skins"} ELSE {"skins"}) :
        /\ phase' = outcome
        /\ shape' = [shape EXCEPT
             !.meshes = SubSeq(@, 1, log.numMeshes) \o run.skinsCopy,
             !.subshapes = IF Len(@) = 1
                           THEN [@ EXCEPT ![1].numObjects = @ + n]
                           ELSE @,
             !.objectStates = IF n > 0 THEN InsertStates(@, run.oldNumObjects, n) ELSE @,
             !.sequences = IF n > 0 THEN ShiftSequences(@, n) ELSE @]
  /\ run' = [run EXCEPT !.pc = "done"]
  /\ lastOp' = [op |-> "migrateWriteBack", n |-> 0]
  /\ UNCHANGED <<heap, st, ss, env, dest, ret, prev, log, steps>>

T_Standard == 0

\* The arguments of a call: a shape of numMeshes meshes and as many objects,
\* a tail of numSkins skins of which some are Null, object states that are
\* `short` more than the objects, and the two detail arrays as readShape
\* sizes them (detailFirstSkin by numDetails, detailNumSkins by numSkins).
SkinInputs ==
  UNION {
    [version : {22, 23}, numMeshes : {nm}, numSkins : {ns}, numDetails : {nd},
     tail : [1..ns -> {T_Null, T_Skin}],
     detailFirstSkin : [1..nd -> FirstVals],
     detailNumSkins : [1..ns -> CountVals],
     short : {d \in {-1, 0, 1} : nm + d >= 0},
     subshapes : {1, 2}] :
    nm \in 0..MaxBaseMeshes, ns \in 0..MaxSkins, nd \in 0..MaxSkinDetails}

SkinShape(inp) ==
  [meshes |-> [i \in 1..(inp.numMeshes + inp.numSkins) |->
                 IF i <= inp.numMeshes THEN SkinMesh(T_Standard, 10 + i)
                 ELSE IF inp.tail[i - inp.numMeshes] = T_Null THEN NullMesh
                 ELSE SkinMesh(T_Skin, i - inp.numMeshes)],
   objects |-> [i \in 1..inp.numMeshes |->
                  [name |-> 0, numMeshes |-> 1, firstMesh |-> i - 1, node |-> -1,
                   nextSibling |-> -1, firstDecal |-> -1]],
   objectStates |-> [i \in 1..(inp.numMeshes + inp.short) |->
                       [vis |-> FloatOne, frame |-> i, matFrame |-> 0]],
   subshapes |-> [i \in 1..inp.subshapes |->
                    [firstNode |-> 0, firstObject |-> 0, firstDecal |-> 0,
                     numNodes |-> 0, numObjects |-> inp.numMeshes, numDecals |-> 0,
                     firstTranslucent |-> -1]],
   sequences |-> <<[baseObjectState |-> 0], [baseObjectState |-> 3]>>]

InitSkins ==
  /\ \E inp \in SkinInputs :
       /\ (inp.version = 23 =>
             /\ \A i \in 1..inp.numSkins : inp.tail[i] = T_Skin /\ inp.detailNumSkins[i] = 2
             /\ \A i \in 1..inp.numDetails : inp.detailFirstSkin[i] = 0
             /\ inp.short = 0)
       /\ log = [version |-> inp.version, numMeshes |-> inp.numMeshes,
                 numSkins |-> inp.numSkins, numDetails |-> inp.numDetails,
                 detailFirstSkin |-> inp.detailFirstSkin,
                 detailNumSkins |-> inp.detailNumSkins, orig |-> SkinShape(inp)]
  /\ shape = log.orig
  /\ run = [pc |-> "call", present |-> 0, oldNumObjects |-> 0, skinsUsed |-> 0,
            numSkinObjects |-> 0, skinsCopy |-> <<>>]
  /\ phase = "skins"
  /\ heap = [b \in {} |-> <<>>]
  /\ st = NullStreams
  /\ ss = NewSplitStream
  /\ env = [ndebug |-> TRUE, junk |-> 0]
  /\ dest = <<>>
  /\ ret = TRUE
  /\ lastOp = [op |-> "init", n |-> 0]
  /\ prev = [st |-> NullStreams, ss |-> NewSplitStream]
  /\ steps = 0

NextSkins == MigrateCall \/ MigratePass \/ MigrateWriteBack

SpecSkins == InitSkins /\ [][NextSkins]_vars

\* The skin migration, where every step that can change the state is taken.
SpecSkinsFair == SpecSkins /\ WF_vars(NextSkins)

\* The migration has returned.
Migrated == phase = "skins" /\ run.pc = "done"

\* The tail of the mesh array as given holds no skin that is not Null.
TailAllNull ==
  \A i \in 1..log.numSkins : log.orig.meshes[log.numMeshes + i].mType = T_Null

\* C14: for a version of 23 or more, for numSkins = 0, and when every mesh
\* of the tail is Null, the mesh, object, object-state, subshape and sequence
\* arrays are after the migration what they were before it.
C14_MigrationFrame ==
  (Migrated /\ (log.version >= 23 \/ log.numSkins = 0 \/ TailAllNull)) => shape = log.orig

C14_Witness ==
  /\ Migrated /\ log.version = 22 /\ log.numSkins = 2 /\ log.numDetails = 1 /\ TailAllNull
  /\ Len(shape.meshes) = log.numMeshes + 2

\* The number of objects the migration added.
SyntheticObjects == Len(shape.objects) - Len(log.orig.objects)

C17_Terminates == <>(run.pc = "done")

\* The migration has run to its end without a write outside an array.
WroteBack ==
  /\ lastOp.op = "migrateWriteBack" /\ phase = "skins"
  /\ Len(run.skinsCopy) <= log.numSkins
  /\ Len(log.orig.objectStates) >= Len(log.orig.objects)

MaxGraphNodes == 4     \* nodes of a shape whose nodes have parents
MaxOwnerNodes == 2     \* nodes of a shape that has objects and decals
MaxGraphObjects == 2   \* objects of a shape
MaxGraphDecals == 2    \* decals of a shape
MaxGraphSequences == 2 \* sequences of a shape

AnyScale == 7

\* Decal::nextSibling before the call: 0 as resize() leaves it (readDecal reads
\* nothing), or -1.
DecalNextVals == {-1, 0}

\* Sequence::flags of the sequences of a shape.
SeqFlagVals == {1, 2, 8}

GraphNode(parent, runtime) ==
  [parent |-> parent, firstObject |-> runtime, firstChild |-> runtime,
   nextSibling |-> runtime]

GraphObject(node, runtime) ==
  [node |-> node, nextSibling |-> runtime, firstDecal |-> runtime]

GraphDecal(object, next) == [object |-> object, nextSibling |-> next]

\* Shapes with nodes under parents, shapes with sequences only, and shapes whose
\* objects hang on root nodes and whose decals hang on objects; a stored index
\* is -1 or an index of its array.
GraphInputs ==
  UNION {[nodes : [1..nn -> -1..(nn - 1)], objects : {<<>>}, decals : {<<>>},
          runtime : RuntimeVals, decalNext : {0}, seqFlags : {<<>>}] :
         nn \in 0..MaxGraphNodes}
  \cup
  UNION {[nodes : {<<>>}, objects : {<<>>}, decals : {<<>>}, runtime : RuntimeVals,
          decalNext : {0}, seqFlags : [1..k -> SeqFlagVals]] :
         k \in 1..MaxGraphSequences}
  \cup
  UNION {[nodes : {[i \in 1..nn |-> -1]}, objects : [1..no -> -1..(nn - 1)],
          decals : [1..nd -> -1..(no - 1)], runtime : {1},
          decalNext : DecalNextVals, seqFlags : {<<>>}] :
         nn \in 0..MaxOwnerNodes, no \in 0..MaxGraphObjects, nd \in 0..MaxGraphDecals}

GraphShape(inp) ==
  [nodes |-> [i \in 1..Len(inp.nodes) |-> GraphNode(inp.nodes[i], inp.runtime)],
   objects |-> [i \in 1..Len(inp.objects) |-> GraphObject(inp.objects[i], inp.runtime)],
   decals |-> [i \in 1..Len(inp.decals) |-> GraphDecal(inp.decals[i], inp.decalNext)],
   seqFlags |-> inp.seqFlags,
   mRuntimeFlags |-> inp.runtime + 1]

\* `while (arr[idx].nextSibling >= 0) idx = arr[idx].nextSibling;`: the index the
\* walk stops at, -2 when it never stops (after Len(arr) steps the walk is on an
\* index it has been on before), -3 when it leaves the array.
ChainTailMut(arr, idx, fuel) == idx

RECURSIVE ChainTail(_, _, _)
ChainTail(arr, idx, fuel) ==
  IF idx < 0 \/ idx >= Len(arr) THEN -3
  ELSE IF arr[idx + 1].nextSibling < 0 THEN idx
  ELSE IF fuel = 0 THEN -2
  ELSE ChainTail(arr, arr[idx + 1].nextSibling, fuel - 1)

\* The loops of initShapeObjects in order, and the place the function is at
\* once turn i of a loop is due: loops with nothing left to do are passed over.
PassLen(sh, k) ==
  IF k = 1 THEN Len(sh.nodes) ELSE IF k = 2 THEN Len(sh.objects) ELSE Len(sh.decals)

PassName == <<"nodes", "objects", "decals", "flags">>

Settle(sh, k, i) ==
  IF i < PassLen(sh, k) THEN [pc |-> PassName[k], i |-> i]
  ELSE IF \E j \in (k + 1)..3 : PassLen(sh, j) > 0
       THEN [pc |-> PassName[CHOOSE j \in (k + 1)..3 :
                               /\ PassLen(sh, j) > 0
                               /\ \A l \in (k + 1)..(j - 1) : PassLen(sh, l) = 0],
             i |-> 0]
       ELSE [pc |-> "flags", i |-> 0]

\* The two resetRuntime loops.
ResetRuntime ==
  /\ phase = "graph" /\ run.pc = "reset"
  /\ \E sh \in {[shape EXCEPT
                   !.nodes = [i \in 1..Len(shape.nodes) |->
                                [shape.nodes[i] EXCEPT !.firstObject = -1,
                                                       !.firstChild = -1,
                                                       !.nextSibling = -1]],
                   !.objects = [i \in 1..Len(shape.objects) |->
                                  [shape.objects[i] EXCEPT !.firstDecal = -1,
                                                           !.nextSibling = -1]]]} :
        /\ shape' = sh
        /\ run' = Settle(sh, 1, 0)
  /\ lastOp' = [op |-> "resetRuntime", n |-> 0]
  /\ UNCHANGED <<heap, st, ss, env, phase, dest, ret, prev, log, steps>>

\* One turn of the loop "Assign sibling nodes".
AssignSiblingNode ==
  /\ phase = "graph" /\ run.pc = "nodes"
  /\ \E parentIdx \in {shape.nodes[run.i + 1].parent} :
       IF parentIdx < 0
       THEN /\ shape' = shape
            /\ run' = Settle(shape, 1, run.i + 1)
       ELSE IF parentIdx >= Len(shape.nodes)
       THEN /\ shape' = shape
            /\ \E out \in {"crashed", "on"} :
                 run' = IF out = "crashed" THEN [pc |-> "crashed", i |-> run.i]
                        ELSE Settle(shape, 1, run.i + 1)
       ELSE IF shape.nodes[parentIdx + 1].firstChild < 0
       THEN /\ shape' = [shape EXCEPT !.nodes[parentIdx + 1].firstChild = run.i]
            /\ run' = Settle(shape, 1, run.i + 1)
       ELSE \E childIdx \in {ChainTail(shape.nodes, shape.nodes[parentIdx + 1].firstChild,
                                       Len(shape.nodes))} :
              IF childIdx = -2 THEN UNCHANGED <<shape, run>>
              ELSE IF childIdx = -3
              THEN shape' = shape /\ run' = [pc |-> "crashed", i |-> run.i]
              ELSE /\ shape' = [shape EXCEPT !.nodes[childIdx + 1].nextSibling = run.i]
                   /\ run' = Settle(shape, 1, run.i + 1)
  /\ lastOp' = [op |-> "assignNode", n |-> run.i]
  /\ UNCHANGED <<heap, st, ss, env, phase, dest, ret, prev, log, steps>>

\* One turn of the loop "Assign sibling objects".
AssignSiblingObject ==
  /\ phase = "graph" /\ run.pc = "objects"
  /\ \E nodeIdx \in {shape.objects[run.i + 1].node} :
       IF nodeIdx < 0
       THEN /\ shape' = shape
            /\ run' = Settle(shape, 2, run.i + 1)
       ELSE IF nodeIdx >= Len(shape.nodes)
       THEN /\ shape' = shape
            /\ \E out \in {"crashed", "on"} :
                 run' = IF out = "crashed" THEN [pc |-> "crashed", i |-> run.i]
                        ELSE Settle(shape, 2, run.i + 1)
       ELSE IF shape.nodes[nodeIdx + 1].firstObject < 0
       THEN /\ shape' = [shape EXCEPT !.nodes[nodeIdx + 1].firstObject = run.i]
            /\ run' = Settle(shape, 2, run.i + 1)
       ELSE \E objectIdx \in {ChainTail(shape.objects, shape.nodes[nodeIdx + 1].firstObject,
                                        Len(shape.objects))} :
              IF objectIdx = -2 THEN UNCHANGED <<shape, run>>
              ELSE IF objectIdx = -3
              THEN shape' = shape /\ run' = [pc |-> "crashed", i |-> run.i]
              ELSE /\ shape' = [shape EXCEPT !.objects[objectIdx + 1].nextSibling = run.i]
                   /\ run' = Settle(shape, 2, run.i + 1)
  /\ lastOp' = [op |-> "assignObject", n |-> run.i]
  /\ UNCHANGED <<heap, st, ss, env, phase, dest, ret, prev, log, steps>>

\* One turn of the loop "Assign sibling decals".  d.object is used as it is, and
\* the tail of the decal chain is written through mObjects.  An index outside
\* mObjects is an access outside the vector: the turn either ends the program or
\* goes on without a change to the shape.
AssignSiblingDecal ==
  /\ phase = "graph" /\ run.pc = "decals"
  /\ \E objectIdx \in {shape.decals[run.i + 1].object} :
       IF objectIdx < 0 \/ objectIdx >= Len(shape.objects)
       THEN /\ shape' = shape
            /\ \E out \in {"crashed", "on"} :
                 run' = IF out = "crashed" THEN [pc |-> "crashed", i |-> run.i]
                        ELSE Settle(shape, 3, run.i + 1)
       ELSE IF shape.objects[objectIdx + 1].firstDecal < 0
       THEN /\ shape' = [shape EXCEPT !.objects[objectIdx + 1].firstDecal = run.i]
            /\ run' = Settle(shape, 3, run.i + 1)
       ELSE \E decalIdx \in {ChainTail(shape.decals, shape.objects[objectIdx + 1].firstDecal,
                                       Len(shape.decals))} :
              IF decalIdx = -2 THEN UNCHANGED <<shape, run>>
              ELSE IF decalIdx = -3
              THEN shape' = shape /\ run' = [pc |-> "crashed", i |-> run.i]
              ELSE IF decalIdx >= Len(shape.objects)
              THEN /\ shape' = shape
                   /\ \E out \in {"crashed", "on"} :
                        run' = IF out = "crashed" THEN [pc |-> "crashed", i |-> run.i]
                               ELSE Settle(shape, 3, run.i + 1)
              ELSE /\ shape' = [shape EXCEPT !.objects[decalIdx + 1].nextSibling = run.i]
                   /\ run' = Settle(shape, 3, run.i + 1)
  /\ lastOp' = [op |-> "assignDecal", n |-> run.i]
  /\ UNCHANGED <<heap, st, ss, env, phase, dest, ret, prev, log, steps>>

\* mRuntimeFlags after the sequences from position i on, from the value flags.
RECURSIVE ScaleFlags(_, _, _)
ScaleFlags(seqFlags, i, flags) ==
  IF i > Len(seqFlags) THEN flags
  ELSE IF seqFlags[i] % (AnyScale + 1) = 0 THEN ScaleFlags(seqFlags, i + 1, flags)
  ELSE ScaleFlags(seqFlags, i + 1,
                  (flags \div (AnyScale + 1)) * (AnyScale + 1)
                  + (IF flags % (AnyScale + 1) > seqFlags[i] % (AnyScale + 1)
                     THEN flags % (AnyScale + 1) ELSE seqFlags[i] % (AnyScale + 1)))

\* "Set runtime flag for sequence", and the return.
SetRuntimeFlags ==
  /\ phase = "graph" /\ run.pc = "flags"
  /\ shape' = [shape EXCEPT !.mRuntimeFlags = ScaleFlags(shape.seqFlags, 1, 0)]
  /\ run' = [pc |-> "done", i |-> 0]
  /\ lastOp' = [op |-> "runtimeFlags", n |-> 0]
  /\ UNCHANGED <<heap, st, ss, env, phase, dest, ret, prev, log, steps>>

InitGraph ==
  /\ \E inp \in GraphInputs : log = [orig |-> GraphShape(inp)]
  /\ shape = log.orig
  /\ run = [pc |-> "reset", i |-> 0]
  /\ phase = "graph"
  /\ heap = [b \in {} |-> <<>>]
  /\ st = NullStreams
  /\ ss = NewSplitStream
  /\ env = [ndebug |-> TRUE, junk |-> 0]
  /\ dest = <<>>
  /\ ret = TRUE
  /\ lastOp = [op |-> "init", n |-> 0]
  /\ prev = [st |-> NullStreams, ss |-> NewSplitStream]
  /\ steps = 0

NextGraph ==
  \/ ResetRuntime \/ AssignSiblingNode \/ AssignSiblingObject \/ AssignSiblingDecal
  \/ SetRuntimeFlags

SpecGraph == InitGraph /\ [][NextGraph]_vars

\* The indices visited from first along nextSibling until a negative index;
\* <<-2>> ends the list of a walk that leaves the array or does not end.
RECURSIVE ChainFrom(_, _, _)
ChainFrom(arr, idx, fuel) ==
  IF idx < 0 THEN <<>>
  ELSE IF fuel = 0 \/ idx >= Len(arr) THEN <<-2>>
  ELSE <<idx>> \o ChainFrom(arr, arr[idx + 1].nextSibling, fuel - 1)

\* The node pass has finished.
NodesLinked == phase = "graph" /\ run.pc \in {"objects", "decals", "flags", "done"}

\* C15: once the node pass of initShapeObjects has finished, for every node p
\* the chain from p.firstChild along nextSibling lists exactly the nodes whose
\* parent is p, each once and in increasing index order (the empty chain,
\* firstChild = -1, for a node without children).
C15_NodeChains ==
  NodesLinked =>
    \A p \in 0..(Len(shape.nodes) - 1) :
      ChainFrom(shape.nodes, shape.nodes[p + 1].firstChild, Len(shape.nodes))
        = SelectSeq([i \in 1..Len(shape.nodes) |-> i - 1],
                    LAMBDA c : shape.nodes[c + 1].parent = p)

C15_Witness ==
  /\ phase = "graph" /\ run.pc = "done"
  /\ Len(shape.nodes) = 4
  /\ [i \in 1..4 |-> shape.nodes[i].parent] = <<-1, 0, 0, 1>>
  /\ shape.nodes[1].firstChild = 1
  /\ shape.nodes[2].nextSibling = 2
  /\ shape.nodes[2].firstChild = 3
  /\ shape.nodes[3].firstChild = -1
  /\ log.orig.nodes[1].firstChild = 1

\* C18: after initShapeObjects, for every node k the chain from k.firstObject
\* along Object.nextSibling lists exactly the objects whose node is k, and for
\* every object o the chain from o.firstDecal along Decal.nextSibling lists
\* exactly the decals whose object is o, each once and in increasing index
\* order; the decals keep their object index.
C18_ObjectDecalChains ==
  (phase = "graph" /\ run.pc = "done") =>
    /\ \A k \in 0..(Len(shape.nodes) - 1) :
         ChainFrom(shape.objects, shape.nodes[k + 1].firstObject, Len(shape.objects))
           = SelectSeq([i \in 1..Len(shape.objects) |-> i - 1],
                       LAMBDA o : shape.objects[o + 1].node = k)
    /\ \A o \in 0..(Len(shape.objects) - 1) :
         ChainFrom(shape.decals, shape.objects[o + 1].firstDecal, Len(shape.decals))
           = SelectSeq([i \in 1..Len(shape.decals) |-> i - 1],
                       LAMBDA d : shape.decals[d + 1].object = o)
    /\ \A d \in 1..Len(shape.decals) : shape.decals[d].object = log.orig.decals[d].object

(***************************************************************************)
(* ShapeViewer::initRenderMaterials and ShapeViewer::renderDetail: the     *)
(* first translucent object of a subshape.                                 *)
(***************************************************************************)
MaxScanMeshes == 3        \* meshes of a shape
MaxMeshesPerObject == 2   \* meshes of one object
MaxScanSubShapes == 2     \* subshapes of a shape

T_Decal == 2
NoMaterial == 268435456
MaterialMask == 268435455
HasTranslucency == 128

\* MaterialList flags of the three materials of a shape: material 0 is opaque,
\* material 1 translucent, material 2 a translucent auxiliary map.
ScanMaterials == <<{}, {"Translucent"}, {"Translucent", "AuxiliaryMap"}>>

\* Meshes by type and Primitive::matIndex of their primitives.
ScanMesh(type, prims) == [mType |-> type, primitives |-> prims]

MeshKinds ==
  {ScanMesh(T_Null, <<>>), ScanMesh(T_Standard, <<0>>), ScanMesh(T_Standard, <<1>>),
   ScanMesh(T_Standard, <<2, NoMaterial + 1, 0>>), ScanMesh(T_Standard, <<0, 1>>),
   ScanMesh(T_Decal, <<1>>)}

\* SubShape::firstTranslucent before the scan: -1 from readShape, 0 from the
\* constructor.
PriorTranslucent == {-1, 0}

RECURSIVE SplitStart(_, _)
SplitStart(split, k) == IF k = 1 THEN 0 ELSE SplitStart(split, k - 1) + split[k - 1]

\* Shapes of no objects with mpo meshes each, the objects split among subshapes
\* that follow each other in the object array.
ScanInputs ==
  UNION {UNION {[meshes : [1..(no * mpo) -> MeshKinds], numObjects : {no},
                 perObject : {mpo},
                 split : {sp \in [1..ns -> 0..no] : SplitStart(sp, ns + 1) = no},
                 prior : PriorTranslucent] :
                no \in 0..(MaxScanMeshes \div mpo), ns \in 0..MaxScanSubShapes} :
         mpo \in 1..MaxMeshesPerObject}

ScanShape(inp) ==
  [meshes |-> inp.meshes,
   objects |-> [i \in 1..inp.numObjects |->
                  [firstMesh |-> (i - 1) * inp.perObject, numMeshes |-> inp.perObject]],
   subshapes |-> [k \in 1..Len(inp.split) |->
                    [firstObject |-> SplitStart(inp.split, k), numObjects |-> inp.split[k],
                     firstTranslucent |-> inp.prior]],
   materials |-> ScanMaterials,
   mRuntimeFlags |-> 0]

\* Mesh::getBasicData() is not NULL.
getBasicData(mesh) == mesh.mType < T_Null /\ mesh.mType # T_Decal

\* The tests on one primitive: it has a material, the material is no auxiliary
\* map, and it is translucent.
PrimTranslucent(sh, matIndex) ==
  /\ (matIndex \div NoMaterial) % 2 = 0
  /\ "AuxiliaryMap" \notin sh.materials[(matIndex % (MaterialMask + 1)) + 1]
  /\ "Translucent" \in sh.materials[(matIndex % (MaterialMask + 1)) + 1]

\* The loops over the meshes of an object and their primitives reach `found`.
ObjectTranslucent(sh, obj) ==
  \E j \in 0..(obj.numMeshes - 1) :
     /\ getBasicData(sh.meshes[obj.firstMesh + j + 1])
     /\ \E k \in 1..Len(sh.meshes[obj.firstMesh + j + 1].primitives) :
           PrimTranslucent(sh, sh.meshes[obj.firstMesh + j + 1].primitives[k])

\* The value the loop over the objects of s leaves in s.firstTranslucent: the
\* loop counter i of the first object that reaches `found`.
FoundAt(sh, s, hits) == CHOOSE i \in hits : \A h \in hits : i <= h

\* One turn of the loop over mSubshapes, or the return when no subshape is left.
ScanSubShape ==
  /\ phase = "scan" /\ run.pc = "scan"
  /\ IF run.i >= Len(shape.subshapes)
     THEN shape' = shape /\ run' = [run EXCEPT !.pc = "done"]
     ELSE \E s \in {shape.subshapes[run.i + 1]} :
          \E hits \in {{i \in 0..(s.numObjects - 1) :
                          ObjectTranslucent(shape, shape.objects[s.firstObject + i + 1])}} :
            IF hits = {}
            THEN /\ shape' = [shape EXCEPT !.subshapes[run.i + 1].firstTranslucent =
                                              s.firstObject + s.numObjects]
                 /\ run' = [run EXCEPT !.i = run.i + 1]
            ELSE /\ shape' = [shape EXCEPT
                                !.subshapes[run.i + 1].firstTranslucent = FoundAt(shape, s, hits),
                                !.mRuntimeFlags =
                                   IF (shape.mRuntimeFlags \div HasTranslucency) % 2 = 1
                                   THEN shape.mRuntimeFlags
                                   ELSE shape.mRuntimeFlags + HasTranslucency]
                 /\ run' = [run EXCEPT !.pc = "done", !.found = run.i]
  /\ lastOp' = [op |-> "scanSubShape", n |-> run.i]
  /\ UNCHANGED <<heap, st, ss, env, phase, dest, ret, prev, log, steps>>

\* renderDetail for a detail level of subshape level: the objects it hands to
\* renderObject, in order.
RenderDetail ==
  /\ phase = "scan" /\ run.pc = "done"
  /\ \E level \in -1..(Len(shape.subshapes) - 1) :
       IF level < 0
       THEN shape' = shape /\ run' = [run EXCEPT !.pc = "rendered", !.level = level]
       ELSE \E s \in {shape.subshapes[level + 1]} :
            \E ft \in {IF s.firstTranslucent < 0 THEN s.firstObject + s.numObjects
                       ELSE s.firstTranslucent} :
              /\ shape' = [shape EXCEPT !.subshapes[level + 1].firstTranslucent = ft]
              /\ run' = [run EXCEPT
                           !.pc = "rendered", !.level = level,
                           !.rendered =
                              [i \in 1..(IF ft > s.firstObject THEN ft - s.firstObject ELSE 0)
                                 |-> s.firstObject + i - 1]
                              \o [i \in 1..(IF s.firstObject + s.numObjects > ft
                                            THEN s.firstObject + s.numObjects - ft ELSE 0)
                                    |-> ft + i - 1]]
  /\ lastOp' = [op |-> "renderDetail", n |-> 0]
  /\ UNCHANGED <<heap, st, ss, env, phase, dest, ret, prev, log, steps>>

InitScan ==
  /\ \E inp \in ScanInputs : log = [orig |-> ScanShape(inp)]
  /\ shape = log.orig
  /\ run = [pc |-> "scan", i |-> 0, found |-> -1, level |-> -1, rendered |-> <<>>]
  /\ phase = "scan"
  /\ heap = [b \in {} |-> <<>>]
  /\ st = NullStreams
  /\ ss = NewSplitStream
  /\ env = [ndebug |-> TRUE, junk |-> 0]
  /\ dest = <<>>
  /\ ret = TRUE
  /\ lastOp = [op |-> "init", n |-> 0]
  /\ prev = [st |-> NullStreams, ss |-> NewSplitStream]
  /\ steps = 0

NextScan == ScanSubShape \/ RenderDetail

SpecScan == InitScan /\ [][NextScan]_vars

\* The scan has returned (the Shape may have been rendered since).
Scanned == phase = "scan" /\ run.pc = "done"

\* Index in the Shape's object array of the first object of subshape k that has
\* a translucent primitive; -1 without one.
FirstTranslucentObject(k) ==
  LET s == log.orig.subshapes[k]
      own == {o \in s.firstObject..(s.firstObject + s.numObjects - 1) :
                ObjectTranslucent(log.orig, log.orig.objects[o + 1])}
  IN IF own = {} THEN -1 ELSE CHOOSE o \in own : \A h \in own : o <= h

\* C19: when initRenderMaterials returns and some subshape has a translucent
\* primitive, the first such subshape has firstTranslucent = the index in the
\* Shape's object array of its first object with such a primitive, and every
\* subshape after it has the firstTranslucent it had before the scan.
C19_FirstTranslucent ==
  Scanned =>
    \A k \in 1..Len(shape.subshapes) :
      (FirstTranslucentObject(k) >= 0 /\ \A j \in 1..(k - 1) : FirstTranslucentObject(j) < 0)
        => /\ shape.subshapes[k].firstTranslucent = FirstTranslucentObject(k)
           /\ \A l \in (k + 1)..Len(shape.subshapes) :
                shape.subshapes[l].firstTranslucent = log.orig.subshapes[l].firstTranslucent

\* C21: when the migration has returned, baseObjectState of every sequence is
\* its value before the call plus the number of synthetic objects, which is
\* the number of default object states inserted; with no synthetic object
\* every baseObjectState is as it was.
C21_SequencesShifted ==
  Migrated =>
    /\ Len(shape.sequences) = Len(log.orig.sequences)
    /\ \A i \in 1..Len(shape.sequences) :
         shape.sequences[i].baseObjectState
           = log.orig.sequences[i].baseObjectState + SyntheticObjects
    /\ (SyntheticObjects = 0 => shape.sequences = log.orig.sequences)

C21_Witness ==
  /\ Migrated /\ SyntheticObjects = 2
  /\ Len(shape.objectStates) = Len(log.orig.objectStates) + 2
  /\ Len(shape.sequences) = 2
  /\ shape.sequences[1].baseObjectState = 2
  /\ shape.sequences[2].baseObjectState = 5

(***************************************************************************)
(* readShape from "Reading meshes" to the call of correctPreV32Skins, for  *)
(* versions above 15: the sizes of the arrays the migrator is handed.      *)
(***************************************************************************)
\* The counts readShape has read from the file, which it compares with nothing.
TailInputs ==
  [version : {22, 23}, numMeshes : 0..MaxBaseMeshes, numSkins : 0..MaxSkins,
   numDetails : 0..MaxSkinDetails, numObjects : 0..MaxBaseMeshes,
   numObjectStates : 0..MaxBaseMeshes, ndebug : BOOLEAN]

\* The loop over the tail skins is due for turn i, or the call follows it.
TailSettle(i) == IF i < log.numSkins THEN [pc |-> "tailSkins", i |-> i]
                 ELSE [pc |-> "migrate", i |-> i]

\* `shape->mMeshes.resize(numMeshes)` and the meshes read into it, the names,
\* and the version test.
ReadMeshesResize ==
  /\ phase = "tail" /\ run.pc = "meshes"
  /\ shape' = [shape EXCEPT !.meshes = [i \in 1..log.numMeshes |-> SkinMesh(T_Standard, 10 + i)]]
  /\ run' = [run EXCEPT !.pc = IF log.version < 23 THEN "detailArrays" ELSE "finish"]
  /\ lastOp' = [op |-> "readMeshes", n |-> 0]
  /\ UNCHANGED <<heap, st, ss, env, phase, dest, ret, prev, log, steps>>

\* `std::vector<int32_t> detailFirstSkin(numDetails)` and
\* `std::vector<int32_t> detailNumSkins(numSkins)`, each filled from the file.
ReadDetailSkinArrays ==
  /\ phase = "tail" /\ run.pc = "detailArrays"
  /\ \E r \in {TailSettle(0)} :
       run' = [run EXCEPT !.pc = r.pc, !.i = r.i,
                          !.detailFirstSkin = [d \in 1..log.numDetails |-> 0],
                          !.detailNumSkins = [d \in 1..log.numSkins |-> 1]]
  /\ lastOp' = [op |-> "readDetailArrays", n |-> 0]
  /\ UNCHANGED <<heap, st, ss, env, phase, dest, ret, prev, log, steps, shape>>

\* One turn of the loop over the tail skins: `Mesh& m = shape->mMeshes[numMeshes + i]`
\* and the writes through m.  A slot the vector does not have is memory outside
\* it: the turn ends the program or goes on with the vector as it is.
ReadTailSkin ==
  /\ phase = "tail" /\ run.pc = "tailSkins"
  /\ \E slot \in {log.numMeshes + run.i} :
     \E r \in {TailSettle(run.i + 1)} :
       IF slot < Len(shape.meshes)
       THEN /\ shape' = [shape EXCEPT !.meshes[slot + 1] = SkinMesh(T_Skin, run.i + 1)]
            /\ run' = [run EXCEPT !.pc = r.pc, !.i = r.i]
       ELSE /\ shape' = shape
            /\ \E out \in {"crashed", "on"} :
                 run' = IF out = "crashed" THEN [run EXCEPT !.pc = "crashed", !.outside = @ + 1]
                        ELSE [run EXCEPT !.pc = r.pc, !.i = r.i, !.outside = @ + 1]
  /\ lastOp' = [op |-> "readTailSkin", n |-> run.i]
  /\ UNCHANGED <<heap, st, ss, env, phase, dest, ret, prev, log, steps>>

\* The call of correctPreV32Skins and the assert(false) after it.
CallCorrectPreV32Skins ==
  /\ phase = "tail" /\ run.pc = "migrate"
  /\ run' = [run EXCEPT !.pc = IF env.ndebug THEN "finish" ELSE "aborted"]
  /\ lastOp' = [op |-> "callMigrator", n |-> 0]
  /\ UNCHANGED <<heap, st, ss, env, phase, dest, ret, prev, log, steps, shape>>

InitTail ==
  /\ \E inp \in TailInputs :
       /\ log = [version |-> inp.version, numMeshes |-> inp.numMeshes,
                 numSkins |-> inp.numSkins, numDetails |-> inp.numDetails]
       /\ shape = [meshes |-> <<>>,
                   objects |-> [i \in 1..inp.numObjects |->
                                  [name |-> 0, numMeshes |-> 1, firstMesh |-> i - 1,
                                   node |-> -1, nextSibling |-> -1, firstDecal |-> -1]],
                   objectStates |-> [i \in 1..inp.numObjectStates |->
                                       [vis |-> FloatOne, frame |-> i, matFrame |-> 0]]]
       /\ env = [ndebug |-> inp.ndebug, junk |-> 0]
  /\ run = [pc |-> "meshes", i |-> 0, outside |-> 0, detailFirstSkin |-> <<>>,
            detailNumSkins |-> <<>>]
  /\ phase = "tail"
  /\ heap = [b \in {} |-> <<>>]
  /\ st = NullStreams
  /\ ss = NewSplitStream
  /\ dest = <<>>
  /\ ret = TRUE
  /\ lastOp = [op |-> "init", n |-> 0]
  /\ prev = [st |-> NullStreams, ss |-> NewSplitStream]
  /\ steps = 0

NextTail ==
  ReadMeshesResize \/ ReadDetailSkinArrays \/ ReadTailSkin \/ CallCorrectPreV32Skins

SpecTail == InitTail /\ [][NextTail]_vars

\* C22: when readShape calls the migrator, the mesh array has numMeshes +
\* numSkins entries, no slot of the tail read was outside it, detailFirstSkin
\* and detailNumSkins have numDetails entries each, and there are at least as
\* many object states as objects.
C22_MigratorPreconditions ==
  (phase = "tail" /\ run.pc = "migrate") =>
    /\ Len(shape.meshes) = log.numMeshes + log.numSkins
    /\ run.outside = 0
    /\ Len(run.detailFirstSkin) = log.numDetails
    /\ Len(run.detailNumSkins) = log.numDetails
    /\ Len(shape.objectStates) >= Len(shape.objects)

\* The synthetic objects of the shape, in the order they were appended.
SyntheticRange == (Len(log.orig.objects) + 1)..Len(shape.objects)

\* C23: when the migration has returned, every mesh that was not Null in the
\* tail is in exactly one slot of exactly one synthetic object, and the mesh
\* ranges of the synthetic objects follow each other from index numMeshes on
\* without gap or overlap and end inside the mesh array.
C23_SkinsKept ==
  Migrated =>
    /\ \A i \in 1..log.numSkins :
         log.orig.meshes[log.numMeshes + i].mType # T_Null =>
           Cardinality({<<o, j>> \in SyntheticRange \X (0..(log.numSkins + log.numDetails)) :
                          /\ j < shape.objects[o].numMeshes
                          /\ shape.objects[o].firstMesh + j < Len(shape.meshes)
                          /\ shape.meshes[shape.objects[o].firstMesh + j + 1]
                               = log.orig.meshes[log.numMeshes + i]}) = 1
    /\ \A o \in SyntheticRange :
         /\ shape.objects[o].firstMesh
              = IF o = Len(log.orig.objects) + 1 THEN log.numMeshes
                ELSE shape.objects[o - 1].firstMesh + shape.objects[o - 1].numMeshes
         /\ shape.objects[o].firstMesh + shape.objects[o].numMeshes <= Len(shape.meshes)

\* The repacked skins: skinsCopy while the loop runs, the tail of the mesh
\* array once it is written back.
RepackedSkins ==
  IF run.pc = "loop" THEN run.skinsCopy
  ELSE SubSeq(shape.meshes, log.numMeshes + 1, Len(shape.meshes))

\* C28: during and after the migration every synthetic object has at least
\* one mesh and its last mesh slot holds a mesh that is not Null, and there
\* are as many synthetic objects as passes that ended with a mesh.
C28_SyntheticObjectsTrimmed ==
  (phase = "skins" /\ run.pc \in {"loop", "done"}) =>
    /\ SyntheticObjects = run.numSkinObjects
    /\ \A o \in SyntheticRange :
         /\ shape.objects[o].numMeshes >= 1
         /\ shape.objects[o].firstMesh + shape.objects[o].numMeshes - log.numMeshes
              \in 1..Len(RepackedSkins)
         /\ RepackedSkins[shape.objects[o].firstMesh + shape.objects[o].numMeshes
                            - log.numMeshes].mType # T_Null

C28_Witness ==
  /\ Migrated /\ log.numDetails = 2 /\ SyntheticObjects = 1
  /\ shape.objects[Len(shape.objects)].numMeshes = 1
  /\ shape.meshes[Len(shape.meshes)].mType = T_Skin
  /\ Len(shape.meshes) = log.numMeshes + 1
  /\ log.numSkins = 2

\* initShapeObjects, where every step that can change the state is taken.
SpecGraphFair == SpecGraph /\ WF_vars(NextGraph)

\* C24: initShapeObjects comes to an end on every shape whose parent, node and
\* object indices are -1 or in range.
C24_GraphTerminates == <>(phase = "graph" /\ run.pc \in {"done", "crashed"})

(***************************************************************************)
(* readShape, "Reading names": the names of the file go into the NameTable *)
(* one by one.                                                             *)
(***************************************************************************)
MaxNames == 3   \* names of a file

\* Names as byte strings: "A", "a", "b" and the empty name.
NameStrings == {<<65>>, <<97>>, <<98>>, <<>>}

NameInputs == UNION {[1..k -> NameStrings] : k \in 0..MaxNames}

\* NameTable::get.
get(strings, index) == IF index < Len(strings) THEN strings[index + 1] ELSE <<>>

\* One turn of `for (int i = 0; i < numNames; i++)`: the string is read and
\* handed to addString; the loop is left after numNames turns.
ReadName ==
  /\ phase = "names" /\ run.pc = "names"
  /\ IF run.i < Len(log.names)
     THEN /\ shape' = [shape EXCEPT !.names = addString(@, log.names[run.i + 1])]
          /\ run' = [run EXCEPT !.i = @ + 1]
     ELSE /\ shape' = shape
          /\ run' = [run EXCEPT !.pc = "done"]
  /\ lastOp' = [op |-> "readName", n |-> run.i]
  /\ UNCHANGED <<heap, st, ss, env, phase, dest, ret, prev, log, steps>>

InitNames ==
  /\ \E names \in NameInputs : log = [names |-> names]
  /\ shape = [names |-> <<>>]
  /\ run = [pc |-> "names", i |-> 0]
  /\ phase = "names"
  /\ heap = [b \in {} |-> <<>>]
  /\ st = NullStreams
  /\ ss = NewSplitStream
  /\ env = [ndebug |-> TRUE, junk |-> 0]
  /\ dest = <<>>
  /\ ret = TRUE
  /\ lastOp = [op |-> "init", n |-> 0]
  /\ prev = [st |-> NullStreams, ss |-> NewSplitStream]
  /\ steps = 0

NextNames == ReadName

SpecNames == InitNames /\ [][NextNames]_vars

\* C25: after the names are read, for every i below numNames, get(i) is the
\* i-th name of the file.
C25_NamesAtFileIndex ==
  (phase = "names" /\ run.pc = "done") =>
    \A i \in 0..(Len(log.names) - 1) : get(shape.names, i) = log.names[i + 1]

\* The 32-bit fields of one Node, Object, Decal or IflMaterial record.
RecordWordsStated(section) ==
  IF section = "nodes" THEN 5 ELSE IF section = "objects" THEN 6
  ELSE IF section = "decals" THEN 5 ELSE 5

\* The count of the records of a section of readShape.
SectionCount(section) ==
  IF section = "nodes" THEN run.numNodes ELSE IF section = "objects" THEN run.numObjects
  ELSE IF section = "decals" THEN run.numDecals ELSE run.numIflMaterials

\* C26: the sections Node, Object, Decal and IflMaterial of readShape each take
\* from the 32-bit stream the fields of all their records and then the word
\* of the checkpoint that follows the array.
C26_RecordsConsumed ==
  (/\ phase = "read" /\ lastOp.op \in {"nodes", "objects", "decals", "ifls"}
   /\ ~run.readFailed /\ SectionCount(lastOp.op) \in 0..MaxFollow) =>
    st.b32.mPos - prev.st.b32.mPos
      = 4 * (RecordWordsStated(lastOp.op) * SectionCount(lastOp.op) + 1)

(***************************************************************************)
(* readMesh for a Standard, Skin or Sorted mesh: the shared BasicData      *)
(* block, and the block of the mesh type.                                  *)
(***************************************************************************)
MaxVerts == 1   \* vertices and texture vertices a mesh file declares

T_Sorted == 3

\* Words of a mesh before its vertex count: numFrames, numMatFrames, parent,
\* bounds (6), center (3), radius.
MeshHeadWords == 13

MeshInputs ==
  [type : {T_Standard, T_Skin, T_Sorted}, parent : {-1, 0}, version : {21, 22},
   numVerts : 0..MaxVerts, numTVerts : 0..MaxVerts]

\* The element data of a mesh file: present for a mesh without parent only.
OwnData(inp, vals) == IF inp.parent < 0 THEN vals ELSE <<>>

\* The 32-bit, 16-bit and 8-bit streams of the file of one mesh, the type word
\* already taken.  Checkpoint k holds k - 1 in each stream.
MeshFile32(inp) ==
  <<0, 1, 1, inp.parent>> \o [i \in 1..10 |-> 20 + i]
  \o <<inp.numVerts>> \o OwnData(inp, [i \in 1..(3 * inp.numVerts) |-> 40 + i])
  \o <<inp.numTVerts>> \o OwnData(inp, [i \in 1..(2 * inp.numTVerts) |-> 50 + i])
  \o OwnData(inp, [i \in 1..(3 * inp.numVerts) |-> 60 + i])
  \o <<1, 7>> \o <<1>> \o <<0>> \o <<inp.numVerts, 0>> \o <<1>>
  \o (IF inp.type = T_Skin
      THEN <<inp.numVerts>> \o OwnData(inp, [i \in 1..(3 * inp.numVerts) |-> 70 + i])
           \o OwnData(inp, [i \in 1..(3 * inp.numVerts) |-> 80 + i])
           \o <<0, 0, 0>> \o <<2>>
      ELSE IF inp.type = T_Sorted THEN <<0, 0, 0, 0, 0>> \o <<2>>
      ELSE <<>>)

MeshFile16(inp) ==
  <<0>> \o <<0, 3>> \o <<5>> \o <<1>>
  \o (IF inp.type \in {T_Skin, T_Sorted} THEN <<2>> ELSE <<>>)

MeshFile8(inp) ==
  <<0>>
  \o (IF inp.version > 21 THEN OwnData(inp, [i \in 1..inp.numVerts |-> 90 + i]) ELSE <<>>)
  \o <<1>>
  \o (IF inp.type = T_Skin
      THEN (IF inp.version > 21 THEN OwnData(inp, [i \in 1..inp.numVerts |-> 95 + i])
            ELSE <<>>) \o <<2>>
      ELSE IF inp.type = T_Sorted THEN <<1, 2>>
      ELSE <<>>)

\* `if (mesh->mParent < 0)`: the mesh has geometry of its own.
OwnsGeometryMut(parent) == TRUE

OwnsGeometry(parent) == parent < 0

\* `count` elements of `dim` fields of `width` bytes, for a mesh that owns
\* its geometry; nothing is read for a mesh with a parent.
ReadElements(h, S, parent, count, dim, width, junk) ==
  IF OwnsGeometry(parent)
  THEN ReadRecords(h, S, count, [i \in 1..dim |-> width], Zeros(dim), junk)
  ELSE [st |-> S, recs |-> <<>>, ok |-> TRUE, asserted |-> FALSE]

\* The vertex, texture-vertex and normal part of the BasicData block.
readGeometry(h, S, version, parent, junk) ==
  With(splitRead(h, S, 4, 0, junk), LAMBDA sz1 :
  With(ReadElements(h, sz1.st, parent, sz1.val, 3, 4, junk), LAMBDA verts :
  With(splitRead(h, verts.st, 4, 0, junk), LAMBDA sz2 :
  With(ReadElements(h, sz2.st, parent, sz2.val, 2, 4, junk), LAMBDA tverts :
  With(ReadElements(h, tverts.st, parent, Len(verts.recs), 3, 4, junk), LAMBDA normals :
  With(ReadElements(h, normals.st, parent,
                    IF version > 21 THEN Len(normals.recs) ELSE 0, 1, 1, junk), LAMBDA enc :
    [st |-> enc.st, verts |-> verts.recs, tverts |-> tverts.recs,
     normals |-> normals.recs,
     elems |-> Len(verts.recs) + Len(tverts.recs) + Len(normals.recs) + Len(enc.recs)]))))))

\* The rest of the BasicData block: primitives, indices, merge indices,
\* vertsPerFrame, flags and the checkpoint.
readDrawData(h, S, sps, junk) ==
  With(splitRead(h, S, 4, 0, junk), LAMBDA sz1 :
  With(ReadRecords(h, sz1.st, sz1.val, <<2, 2, 4>>, Zeros(3), junk), LAMBDA prims :
  With(splitRead(h, prims.st, 4, 0, junk), LAMBDA sz2 :
  With(splitReadN(h, sz2.st, 2, sz2.val, <<>>, junk), LAMBDA indices :
  With(splitRead(h, indices.st, 4, 0, junk), LAMBDA sz3 :
  With(splitReadN(h, sz3.st, 2, sz3.val, <<>>, junk), LAMBDA merge :
  With(ReadFields(h, merge.st, Words(2), Zeros(2), junk), LAMBDA f :
  With(readCheck(h, f.st, sps, junk), LAMBDA c :
    [st |-> c.st, ss |-> c.ss, primitives |-> prims.recs,
     mVertsPerFrame |-> f.vals[1], mFlags |-> f.vals[2], checked |-> c.ok]))))))))

\* `if (basicData) { ... }`.
ReadMeshBasic ==
  /\ phase = "mesh" /\ run.pc = "basic"
  /\ \E c \in {readCheck(heap, st, ss, env.junk)} :
     \E f \in {ReadFields(heap, c.st, Words(MeshHeadWords), Zeros(MeshHeadWords), env.junk)} :
     \E g \in {readGeometry(heap, f.st, ss.dtsVersion, f.vals[3], env.junk)} :
     \E d \in {readDrawData(heap, g.st, c.ss, env.junk)} :
        /\ st' = d.st
        /\ ss' = d.ss
        /\ shape' = [shape EXCEPT !.mNumFrames = f.vals[1], !.mNumMatFrames = f.vals[2],
                                  !.mParent = f.vals[3], !.verts = g.verts,
                                  !.tverts = g.tverts, !.normals = g.normals,
                                  !.primitives = d.primitives,
                                  !.mVertsPerFrame = d.mVertsPerFrame, !.mFlags = d.mFlags]
        /\ run' = [run EXCEPT !.pc = IF shape.mType = T_Skin THEN "skin"
                                     ELSE IF shape.mType = T_Sorted THEN "sorted"
                                     ELSE "done",
                              !.elems = @ + g.elems,
                              !.checkFailed = @ \/ ~c.ok \/ ~d.checked]
  /\ lastOp' = [op |-> "meshBasic", n |-> 0]
  /\ prev' = [st |-> st, ss |-> ss]
  /\ UNCHANGED <<heap, env, phase, dest, ret, log, steps>>

\* `if (skinData) { ... }`: the skin's own vertices and normals, the node
\* transforms and the weights (none in the files followed), or the three
\* words of a skin with a parent, and the checkpoint.
ReadMeshSkin ==
  /\ phase = "mesh" /\ run.pc = "skin"
  /\ \E sz \in {splitRead(heap, st, 4, 0, env.junk)} :
     \E verts \in {ReadElements(heap, sz.st, shape.mParent, sz.val, 3, 4, env.junk)} :
     \E normals \in {ReadElements(heap, verts.st, shape.mParent, Len(verts.recs), 3, 4,
                                  env.junk)} :
     \E enc \in {ReadElements(heap, normals.st, shape.mParent,
                              IF ss.dtsVersion > 21 THEN Len(normals.recs) ELSE 0, 1, 1,
                              env.junk)} :
     \E f \in {ReadFields(heap, enc.st, Words(3), Zeros(3), env.junk)} :
     \E c \in {readCheck(heap, f.st, ss, env.junk)} :
        /\ st' = c.st
        /\ ss' = c.ss
        /\ shape' = IF OwnsGeometry(shape.mParent)
                    THEN [shape EXCEPT !.verts = verts.recs, !.normals = normals.recs]
                    ELSE shape
        /\ run' = [run EXCEPT !.pc = "done",
                              !.elems = @ + Len(verts.recs) + Len(normals.recs) + Len(enc.recs),
                              !.checkFailed = @ \/ ~c.ok]
  /\ lastOp' = [op |-> "meshSkin", n |-> 0]
  /\ prev' = [st |-> st, ss |-> ss]
  /\ UNCHANGED <<heap, env, phase, dest, ret, log, steps>>

\* `else if (mesh->mType == Mesh::T_Sorted) { ... }`: five counts of empty
\* arrays, alwaysWriteDepth and the checkpoint.  The mesh gets a new, empty
\* SortedData in place of its BasicData.
ReadMeshSorted ==
  /\ phase = "mesh" /\ run.pc = "sorted"
  /\ \E f \in {ReadFields(heap, st, Words(5) \o <<1>>, Zeros(6), env.junk)} :
     \E c \in {readCheck(heap, f.st, ss, env.junk)} :
        /\ st' = c.st
        /\ ss' = c.ss
        /\ shape' = [shape EXCEPT !.verts = <<>>, !.tverts = <<>>, !.normals = <<>>,
                                  !.primitives = <<>>]
        /\ run' = [run EXCEPT !.pc = "done", !.checkFailed = @ \/ ~c.ok]
  /\ lastOp' = [op |-> "meshSorted", n |-> 0]
  /\ prev' = [st |-> st, ss |-> ss]
  /\ UNCHANGED <<heap, env, phase, dest, ret, log, steps>>

InitMesh ==
  /\ \E inp \in MeshInputs :
       /\ log = inp
       /\ heap = [b \in {"m32", "m16", "m8"} |->
                    IF b = "m32" THEN Encode(MeshFile32(inp), 4)
                    ELSE IF b = "m16" THEN Encode(MeshFile16(inp), 2)
                    ELSE Encode(MeshFile8(inp), 1)]
       /\ st = [NullStreams EXCEPT
                  !.b32 = MemRStream("m32", 0, 4 * Len(MeshFile32(inp)), FALSE),
                  !.b16 = MemRStream("m16", 0, 2 * Len(MeshFile16(inp)), FALSE),
                  !.b8 = MemRStream("m8", 0, Len(MeshFile8(inp)), FALSE)]
       /\ ss = [NewSplitStream EXCEPT !.dtsVersion = inp.version]
       /\ shape = [mType |-> inp.type, mParent |-> -1, mNumFrames |-> 1,
                   mNumMatFrames |-> 1, mVertsPerFrame |-> 0, mFlags |-> 0,
                   verts |-> <<>>, tverts |-> <<>>, normals |-> <<>>, primitives |-> <<>>]
  /\ run = [pc |-> "basic", elems |-> 0, checkFailed |-> FALSE]
  /\ phase = "mesh"
  /\ env = [ndebug |-> TRUE, junk |-> 0]
  /\ dest = <<>>
  /\ ret = TRUE
  /\ lastOp = [op |-> "init", n |-> 0]
  /\ prev = [st |-> st, ss |-> ss]
  /\ steps = 0

NextMesh == ReadMeshBasic \/ ReadMeshSkin \/ ReadMeshSorted

SpecMesh == InitMesh /\ [][NextMesh]_vars

\* C27: when readMesh has read a Standard, Skin or Sorted mesh whose mParent is
\* 0 or more, the mesh has no vertices, texture vertices or normals, no element
\* of these arrays and no encoded normal was taken from a stream, and the
\* streams stand at the end of the mesh's data with every checkpoint met.
C27_ParentGeometrySkipped ==
  (phase = "mesh" /\ run.pc \in {"skin", "sorted", "done"} /\ shape.mParent >= 0) =>
    /\ shape.verts = <<>> /\ shape.tverts = <<>> /\ shape.normals = <<>>
    /\ run.elems = 0
    /\ ~run.checkFailed
    /\ (run.pc = "done" =>
          /\ st.b32.mPos = st.b32.mSize
          /\ st.b16.mPos = st.b16.mSize
          /\ st.b8.mPos = st.b8.mSize)

C27_Witness ==
  /\ phase = "mesh" /\ run.pc = "done" /\ shape.mType = T_Skin /\ shape.mParent = 0
  /\ log.numVerts = 1 /\ log.numTVerts = 1 /\ log.version = 22
  /\ shape.verts = <<>> /\ Len(shape.primitives) = 1
  /\ st.b32.mPos = 4 * (1 + MeshHeadWords + 2 + 7 + 5)

(***************************************************************************)
(* Ownership of the buffer: MemRStream objects constructed from one        *)
(* another, assigned, made windows of one another and destroyed.           *)
(***************************************************************************)
MaxOwnOps == 3   \* constructions, assignments and windows made in a run

\* Streams that exist from the start: the source and the three default-
\* constructed windows of a SplitStream.  "dst" is constructed later.
FirstStreams == {"src", "b32", "b16", "b8"}

\* MemRStream(MemRStream &&other) and MemRStream(MemRStream &other): the new
\* stream and what is left of the other.
constructFrom(other) ==
  [new |-> [other EXCEPT !.mOwnPtr = TRUE], other |-> [other EXCEPT !.mOwnPtr = FALSE]]

\* operator=(MemRStream other): the parameter is constructed from the
\* argument, the target takes its fields and its ownership, and the
\* parameter is destroyed owning nothing.
assignFrom(arg) ==
  [target |-> [constructFrom(arg).new EXCEPT
                 !.mOwnPtr = IF constructFrom(arg).new.mOwnPtr THEN TRUE ELSE FALSE],
   arg |-> constructFrom(arg).other]

OwnStep(op) ==
  /\ phase = "own"
  /\ steps < MaxOwnOps
  /\ steps' = steps + 1
  /\ lastOp' = [op |-> op, n |-> 0]
  /\ prev' = [st |-> st, ss |-> ss]
  /\ UNCHANGED <<heap, ss, env, phase, dest, ret, log, shape>>

OwnMoveConstruct ==
  /\ OwnStep("move")
  /\ "dst" \notin run.live
  /\ \E from \in run.live :
       /\ st' = [st EXCEPT !.dst = constructFrom(st[from]).new,
                           ![from] = constructFrom(st[from]).other]
       /\ run' = [run EXCEPT !.live = @ \cup {"dst"}]

OwnCopyConstruct ==
  /\ OwnStep("copy")
  /\ "dst" \notin run.live
  /\ \E from \in run.live :
       /\ st' = [st EXCEPT !.dst = constructFrom(st[from]).new,
                           ![from] = constructFrom(st[from]).other]
       /\ run' = [run EXCEPT !.live = @ \cup {"dst"}]

OwnAssign ==
  /\ OwnStep("assign")
  /\ \E to \in run.live, from \in run.live :
       /\ to # from
       /\ st' = [st EXCEPT ![to] = assignFrom(st[from]).target,
                           ![from] = assignFrom(st[from]).arg]
  /\ UNCHANGED run

OwnSetOffsetView ==
  /\ OwnStep("setOffsetView")
  /\ \E to \in run.live, other \in run.live, offset \in {0, 4} :
       /\ to # other
       /\ st' = [st EXCEPT ![to] = setOffsetView(st[other], offset, 4)]
  /\ UNCHANGED run

\* ~MemRStream(): `if (mOwnPtr) free(mPtr)`.
OwnDestroy ==
  /\ phase = "own"
  /\ \E s \in run.live :
       /\ run' = [run EXCEPT !.live = @ \ {s},
                             !.freed = IF st[s].mOwnPtr
                                       THEN Append(@, [buf |-> st[s].buf, mPtr |-> st[s].mPtr])
                                       ELSE @]
       /\ lastOp' = [op |-> "destroy", n |-> 0]
  /\ prev' = [st |-> st, ss |-> ss]
  /\ UNCHANGED <<heap, st, ss, env, phase, dest, ret, log, steps, shape>>

InitOwn ==
  /\ heap = [b \in {"file"} |-> MemPattern]
  /\ \E own \in BOOLEAN : st = [NullStreams EXCEPT !.src = MemRStream("file", 0, MaxMem, own)]
  /\ run = [live |-> FirstStreams, freed |-> <<>>]
  /\ phase = "own"
  /\ ss = NewSplitStream
  /\ env = [ndebug |-> TRUE, junk |-> 0]
  /\ dest = <<>>
  /\ ret = TRUE
  /\ lastOp = [op |-> "init", n |-> 0]
  /\ prev = [st |-> NullStreams, ss |-> NewSplitStream]
  /\ log = <<>>
  /\ steps = 0
  /\ shape = NoShape

NextOwn ==
  OwnMoveConstruct \/ OwnCopyConstruct \/ OwnAssign \/ OwnSetOffsetView \/ OwnDestroy

SpecOwn == InitOwn /\ [][NextOwn]_vars

\* C29: no two live streams own the same allocation, a stream that has just
\* been made a window by setOffsetView owns nothing, and no allocation is
\* freed twice.
C29_SingleOwner ==
  phase = "own" =>
    /\ \A a \in run.live, b \in run.live :
         (a # b /\ st[a].mOwnPtr /\ st[b].mOwnPtr /\ st[a].buf # "null")
           => st[a].buf # st[b].buf
    /\ (lastOp.op = "setOffsetView" =>
          \A s \in run.live : st[s] # prev.st[s] => ~st[s].mOwnPtr)
    /\ \A i \in 1..Len(run.freed), j \in 1..Len(run.freed) :
         i # j => run.freed[i].buf # run.freed[j].buf

(***************************************************************************)
(* floodFromStream over a file whose header need not agree with the        *)
(* payload that follows it: the payload holds `words` words whatever the   *)
(* header declares.                                                        *)
(***************************************************************************)
FloodPayload(words) == [i \in 1..(4 * words) |-> i]

InitFlood ==
  /\ \E version \in {18, 24}, words \in 0..MaxWords,
        offset16 \in 0..MaxWords, offset8 \in 0..MaxWords, totalSize \in 0..(MaxWords + 1) :
       /\ offset16 <= offset8 /\ offset8 <= totalSize
       /\ heap = [b \in {"file"} |->
                    SplitHeader(version, totalSize, offset16, offset8) \o FloodPayload(words)]
  /\ st = [NullStreams EXCEPT !.src = MemRStream("file", 0, Len(heap.file), TRUE)]
  /\ ss = NewSplitStream
  /\ \E nd \in BOOLEAN : env = [ndebug |-> nd, junk |-> 0]
  /\ phase = "open"
  /\ dest = <<>>
  /\ ret = TRUE
  /\ lastOp = [op |-> "init", n |-> 0]
  /\ prev = [st |-> NullStreams, ss |-> NewSplitStream]
  /\ log = <<>>
  /\ steps = 0
  /\ shape = NoShape
  /\ run = NoRun

SpecFlood == InitFlood /\ [][NextSplit]_vars

\* C30: the cursor of every stream lies within the stream, 0 <= mPos <= mSize,
\* after floodFromStream and after every read that follows it, whatever word
\* counts the header declares.
C30_CursorInRange ==
  \A n \in StreamNames : st[n].mPos >= 0 /\ st[n].mPos <= st[n].mSize

====
